---- MODULE Spec2Model ----
(***************************************************************************)
(* BG3 damage calculator: the discrete probability engine (packages/prob), *)
(* the attack / damage domain model (packages/domain) built on it.         *)
(*                                                                         *)
(* JavaScript numbers that carry probabilities or expectations are         *)
(* modelled as exact rationals <<numerator, denominator>> in lowest terms  *)
(* with a positive denominator.  So are the numeric arguments the code     *)
(* tests with Number.isInteger or rounds with Math.floor / Math.ceil       *)
(* (sides, counts, multipliers, repeats, thresholds); outcomes, faces,     *)
(* armor classes and constant terms are integers.                          *)
(* A thrown Error is the record [error |-> message].                       *)
(***************************************************************************)
EXTENDS Integers, Sequences, FiniteSets, TLC

VARIABLES
    dist,           \* algebra: the distribution held by the caller
    opCount,        \* algebra: number of engine operations applied so far
    attack,         \* AttackCheckInput handed to calculateAttackOutcomeProbabilities
    attackResult,   \* its AttackOutcomeProbabilities, None before the call
    previous,       \* the caller's previous (input, result) pair, None if there is none
    singleRoll,     \* arguments of calculateSingleRollAttackProbabilities
    singleRollResult,
    damageRequest,  \* AttackDamageRequest handed to calculateAttackDamage
    damageResult,   \* its AttackDamageResult, None before the call
    plan,           \* [steps |-> the AttackDamagePlanStep[] handed to calculateAttackDamagePlan]
    planResult,     \* its AttackDamagePlanResult, None before the call
    call,           \* any other exported function a caller invokes, with its arguments
    returned,       \* what that call returned, None before the call
    phase,          \* App: "idle" without an App, else "created", "mounted" or "unmounted"
    computeInput,   \* App: the entries and planCountText of the latest render
    uiErrorMessage, \* App: errorMessage, useState("")
    uiResult,       \* App: result, useState(EMPTY_RESULT)
    isComputing,    \* App: useState(false)
    activeWorkerRef,    \* App: the worker held by the ref, 0 for null
    requestIdRef,       \* App: useRef(0)
    debounceTimerRef,   \* App: the timer id held by the ref, 0 for null
    timers,         \* window: the timeouts that are set and have neither fired nor been cleared
    workers,        \* the Worker objects created so far, by the request id they were posted
    events          \* the message and error events of the workers queued for the App's thread

appVars == <<phase, computeInput, uiErrorMessage, uiResult, isComputing, activeWorkerRef,
             requestIdRef, debounceTimerRef, timers, workers, events>>

vars == <<dist, opCount, attack, attackResult, previous, singleRoll, singleRollResult,
          damageRequest, damageResult, plan, planResult, call, returned, appVars>>

None == [none |-> TRUE]

\* an optional number that is absent, and an optional roll mode that is absent
Undefined == <<>>
UndefinedMode == "undefined"

Throw(message) == [error |-> message]

IsError(x) == "error" \in DOMAIN x

\* a thrown Error leaves the calling function at once: `value` is what a call
\* returned or threw, Continue is the rest of the caller
OrThrow(value, Continue) == IF IsError(value) THEN value ELSE Continue[value]

-----------------------------------------------------------------------------
(* Number arithmetic: exact rationals.                                     *)

Abs(n) == IF n < 0 THEN -n ELSE n

RECURSIVE GCD(_, _)
GCD(a, b) == IF b = 0 THEN a ELSE GCD(b, a % b)

Rat(n, d) ==
    LET g == GCD(Abs(n), d)
    IN  IF n = 0 THEN <<0, 1>> ELSE <<n \div g, d \div g>>

Zero == <<0, 1>>
One == <<1, 1>>
FromInt(n) == <<n, 1>>

RAdd(p, q) ==
    LET g == GCD(p[2], q[2])
        l == (p[2] \div g) * q[2]
    IN  Rat(p[1] * (l \div p[2]) + q[1] * (l \div q[2]), l)

RNeg(p) == <<-p[1], p[2]>>

RSub(p, q) == RAdd(p, RNeg(q))

RMul(p, q) ==
    LET g1 == GCD(Abs(p[1]), q[2])
        g2 == GCD(Abs(q[1]), p[2])
    IN  IF p[1] = 0 \/ q[1] = 0 THEN Zero
        ELSE <<(p[1] \div g1) * (q[1] \div g2), (p[2] \div g2) * (q[2] \div g1)>>

RLeq(p, q) == RSub(p, q)[1] <= 0

RLess(p, q) == RSub(p, q)[1] < 0

RECURSIVE RPow(_, _)
RPow(p, n) == IF n = 0 THEN One ELSE RMul(p, RPow(p, n - 1))

\* p / q for q > 0
RDiv(p, q) == RMul(p, <<q[2], q[1]>>)

RFloor(p) == p[1] \div p[2]

\* s[lo] + ... + s[hi]; exact sums do not depend on the order of the additions
RECURSIVE RSumRange(_, _, _)
RSumRange(s, lo, hi) ==
    IF lo > hi THEN Zero
    ELSE IF lo = hi THEN s[lo]
    ELSE RAdd(RSumRange(s, lo, (lo + hi) \div 2), RSumRange(s, (lo + hi) \div 2 + 1, hi))

\* the sum of an array of numbers (reduce((sum, x) => sum + x, 0))
RSum(s) == RSumRange(s, 1, Len(s))

\* Number.isInteger on a number given as a rational
IsInteger(x) == x[2] = 1

-----------------------------------------------------------------------------
(* packages/prob: the distribution engine.                                 *)

\* PROBABILITY_EPSILON = 1e-15 = 1 / (EpsilonHigh * EpsilonLow)
EpsilonHigh == 100000000
EpsilonLow == 10000000

\* Math.abs(probability) <= PROBABILITY_EPSILON
AtMostEpsilon(p) ==
    \/ p[1] = 0
    \/ (p[2] \div Abs(p[1])) \div EpsilonHigh >= EpsilonLow

\* the array [F[1], ..., F[n]]
MakeSeq(n, F) == [i \in 1..n |-> F[i]] \o <<>>

\* the Map with the keys of S, each key k holding F[k]
MakeMap(S, F) == [k \in S |-> F[k]] @@ <<>>

\* the elements of a set of integers in ascending order
SortedSeq(S) ==
    MakeSeq(Cardinality(S),
            [i \in Nat |-> CHOOSE x \in S : Cardinality({y \in S : y < x}) = i - 1])

Entry(o, p) == [outcome |-> o, probability |-> p]

\* normalize with map.set(outcome, probability): a colliding outcome keeps the
\* probability entered last instead of the sum
normalizeOverwrite(entries) ==
    LET outcomes == {entries[i].outcome : i \in 1..Len(entries)}
        get(o) ==
            LET same == SelectSeq(entries, LAMBDA e : e.outcome = o)
            IN  same[Len(same)].probability
        map == MakeMap(outcomes, [o \in Int |-> get(o)])
        order == SortedSeq(outcomes)
        sortedEntries == MakeSeq(Len(order), [i \in Nat |-> Entry(order[i], map[order[i]])])
    IN  [map |-> map,
         entries |-> sortedEntries,
         totalProbability |-> RSum(MakeSeq(Len(order), [i \in Nat |-> sortedEntries[i].probability]))]

normalize(entries) ==
    LET outcomes == {entries[i].outcome : i \in 1..Len(entries)}
        \* map.get(o) after the loop: the sum of the probabilities entered for o
        get(o) ==
            LET same == SelectSeq(entries, LAMBDA e : e.outcome = o)
            IN  RSum(MakeSeq(Len(same), [i \in Nat |-> same[i].probability]))
        map == MakeMap(outcomes, [o \in Int |-> get(o)])
        order == SortedSeq(outcomes)
        sortedEntries == MakeSeq(Len(order), [i \in Nat |-> Entry(order[i], map[order[i]])])
    IN  [map |-> map,
         entries |-> sortedEntries,
         totalProbability |-> RSum(MakeSeq(Len(order), [i \in Nat |-> sortedEntries[i].probability]))]

toDense(distribution) ==
    IF Len(distribution.entries) = 0
    THEN [offset |-> 0, values |-> <<Zero>>]
    ELSE LET firstOutcome == distribution.entries[1].outcome
             lastOutcome == distribution.entries[Len(distribution.entries)].outcome
             present == {distribution.entries[i].outcome : i \in 1..Len(distribution.entries)}
             at(o) == distribution.entries[CHOOSE i \in 1..Len(distribution.entries) :
                                              distribution.entries[i].outcome = o].probability
         IN  [offset |-> firstOutcome,
              values |-> MakeSeq(lastOutcome - firstOutcome + 1,
                            [k \in Nat |-> IF (firstOutcome + k - 1) \in present
                                       THEN at(firstOutcome + k - 1) ELSE Zero])]

fromDense(distribution) ==
    LET kept == SelectSeq(MakeSeq(Len(distribution.values),
                              [k \in Nat |-> Entry(distribution.offset + k - 1, distribution.values[k])]),
                          LAMBDA e : ~AtMostEpsilon(e.probability))
    IN  normalize(kept)

convolveDense(left, right) ==
    LET \* what the iteration (leftIndex, rightIndex) = (i - 1, k - i) adds to values[k - 1]
        term(k, i) ==
            LET j == k - i + 1
            IN  IF j >= 1 /\ j <= Len(right.values)
                   /\ ~AtMostEpsilon(left.values[i]) /\ ~AtMostEpsilon(right.values[j])
                THEN RMul(left.values[i], right.values[j])
                ELSE Zero
    IN  [offset |-> left.offset + right.offset,
         values |-> MakeSeq(Len(left.values) + Len(right.values) - 1,
                       [k \in Nat |-> RSum(MakeSeq(Len(left.values), [i \in Nat |-> term(k, i)]))])]

fromEntries(entries) == normalize(entries)

constant(value) == normalize(<<Entry(value, One)>>)

uniformDie(sides) ==
    IF ~IsInteger(sides) \/ sides[1] <= 0
    THEN Throw("sides must be a positive integer")
    ELSE normalize(MakeSeq(sides[1], [face \in Nat |-> Entry(face, Rat(1, sides[1]))]))

shift(distribution, amount) ==
    normalize(MakeSeq(Len(distribution.entries),
                  [i \in Nat |-> Entry(distribution.entries[i].outcome + amount,
                                   distribution.entries[i].probability)]))

\* mapOutcomes keeping, of the entries that collide, the probability of the last
mapOutcomesOverwrite(distribution, transform) ==
    normalizeOverwrite(MakeSeq(Len(distribution.entries),
                  [i \in Nat |-> Entry(transform[distribution.entries[i].outcome],
                                   distribution.entries[i].probability)]))

mapOutcomes(distribution, transform) ==
    normalize(MakeSeq(Len(distribution.entries),
                  [i \in Nat |-> Entry(transform[distribution.entries[i].outcome],
                                   distribution.entries[i].probability)]))

convolve(left, right) == fromDense(convolveDense(toDense(left), toDense(right)))

\* repeatConvolve whose loop starts from the base instead of the unit: one copy more
repeatConvolveFromBase(base, times) ==
    LET denseBase == toDense(base)
        result[i \in 0..times[1]] ==
            IF i = 0 THEN denseBase
            ELSE convolveDense(result[i - 1], denseBase)
    IN  IF ~IsInteger(times) \/ times[1] < 0
        THEN Throw("times must be a non-negative integer")
        ELSE IF times[1] = 0 THEN constant(0)
        ELSE fromDense(result[times[1]])

repeatConvolve(base, times) ==
    LET denseBase == toDense(base)
        \* `result` after i iterations of the loop
        result[i \in 0..times[1]] ==
            IF i = 0 THEN [offset |-> 0, values |-> <<One>>]
            ELSE convolveDense(result[i - 1], denseBase)
    IN  IF ~IsInteger(times) \/ times[1] < 0
        THEN Throw("times must be a non-negative integer")
        ELSE IF times[1] = 0 THEN constant(0)
        ELSE fromDense(result[times[1]])

expectation(distribution) ==
    RSum(MakeSeq(Len(distribution.entries),
             [i \in Nat |-> RMul(FromInt(distribution.entries[i].outcome),
                             distribution.entries[i].probability)]))

probabilityAtLeast(distribution, threshold) ==
    LET kept == SelectSeq(distribution.entries, LAMBDA e : e.outcome >= threshold)
    IN  RSum(MakeSeq(Len(kept), [i \in Nat |-> kept[i].probability]))

probabilityAtMost(distribution, threshold) ==
    LET kept == SelectSeq(distribution.entries, LAMBDA e : e.outcome <= threshold)
    IN  RSum(MakeSeq(Len(kept), [i \in Nat |-> kept[i].probability]))

\* the running sums `cumulative` of maxOfIndependent / minOfIndependent:
\* element i + 1 is the sum after the first i entries
Cumulative(entries) ==
    LET probability == MakeSeq(Len(entries), [i \in Nat |-> entries[i].probability])
    IN  MakeSeq(Len(entries) + 1, [k \in Nat |-> RSumRange(probability, 1, k - 1)])

\* maxOfIndependent taking an invalid count for a single draw instead of throwing
maxOfIndependentCoerced(distribution, count) ==
    LET cdf == Cumulative(distribution.entries)
        draws == IF IsInteger(count) /\ count[1] >= 1 THEN count[1] ELSE 1
    IN  IF draws = 1 THEN distribution
        ELSE fromEntries(MakeSeq(Len(distribution.entries), [i \in Nat |->
                Entry(distribution.entries[i].outcome,
                      RSub(RPow(cdf[i + 1], draws), RPow(cdf[i], draws)))]))

maxOfIndependent(distribution, count) ==
    LET cdf == Cumulative(distribution.entries)
    IN  IF ~IsInteger(count) \/ count[1] <= 0
        THEN Throw("count must be a positive integer")
        ELSE IF count[1] = 1 THEN distribution
        ELSE fromEntries(MakeSeq(Len(distribution.entries), [i \in Nat |->
                Entry(distribution.entries[i].outcome,
                      RSub(RPow(cdf[i + 1], count[1]), RPow(cdf[i], count[1])))]))

\* minOfIndependent taking the highest draw
minOfIndependentHighest(distribution, count) == maxOfIndependent(distribution, count)

minOfIndependent(distribution, count) ==
    LET cdf == Cumulative(distribution.entries)
    IN  IF ~IsInteger(count) \/ count[1] <= 0
        THEN Throw("count must be a positive integer")
        ELSE IF count[1] = 1 THEN distribution
        ELSE fromEntries(MakeSeq(Len(distribution.entries), [i \in Nat |->
                Entry(distribution.entries[i].outcome,
                      RSub(RPow(RSub(One, cdf[i]), count[1]),
                           RPow(RSub(One, cdf[i + 1]), count[1])))]))

-----------------------------------------------------------------------------
(* packages/domain: the attack probability model.                          *)

\* ExpressionComponent values as the parser builds them
Dice(count, sides, sign) == [kind |-> "dice", count |-> FromInt(count), sides |-> FromInt(sides), sign |-> sign]
Const(value) == [kind |-> "constant", value |-> value]

\* validateAttackRules letting a die of one side through
validateAttackRulesAllowOne(config) ==
    IF ~IsInteger(config.dieSides) \/ config.dieSides[1] < 1
    THEN Throw("dieSides must be an integer greater than 1")
    ELSE None

validateAttackRules(config) ==
    IF ~IsInteger(config.dieSides) \/ config.dieSides[1] <= 1
    THEN Throw("dieSides must be an integer greater than 1")
    ELSE None

clamp01(value) ==
    LET capped == IF RLess(One, value) THEN One ELSE value
    IN  IF RLess(capped, Zero) THEN Zero ELSE capped

\* calculateSingleRollAttackProbabilities without Math.max(threshold, 2): a face of 1
\* that reaches the armor class counts as a hit
calculateSingleRollWithoutAutoMiss(armorClass, attackBonus, criticalThreshold) ==
    LET threshold == armorClass - attackBonus
        critChance == clamp01(Rat(21 - criticalThreshold, 20))
        gap == IF criticalThreshold - threshold > 0 THEN criticalThreshold - threshold ELSE 0
        nonCritChance == clamp01(Rat(gap, 20))
    IN  [miss |-> clamp01(RSub(RSub(One, critChance), nonCritChance)),
         hit |-> nonCritChance,
         critical |-> critChance]

calculateSingleRollAttackProbabilities(armorClass, attackBonus, criticalThreshold) ==
    LET threshold == armorClass - attackBonus
        critChance == clamp01(Rat(21 - criticalThreshold, 20))
        larger == IF threshold > 2 THEN threshold ELSE 2
        gap == IF criticalThreshold - larger > 0 THEN criticalThreshold - larger ELSE 0
        nonCritChance == clamp01(Rat(gap, 20))
    IN  [miss |-> clamp01(RSub(RSub(One, critChance), nonCritChance)),
         hit |-> nonCritChance,
         critical |-> critChance]

\* singleDieDistribution[face] ?? 0 on the array indexed 0..dieSides
FaceAt(singleDieDistribution, face) ==
    IF face \in DOMAIN singleDieDistribution THEN singleDieDistribution[face] ELSE Zero

\* FaceChance with the formulas of advantage and disadvantage exchanged
FaceChanceSwapped(singleFace, cdfAtFace, cdfBeforeFace, advantageState) ==
    IF advantageState = "normal" THEN singleFace
    ELSE IF advantageState = "disadvantage"
    THEN RSub(RMul(cdfAtFace, cdfAtFace), RMul(cdfBeforeFace, cdfBeforeFace))
    ELSE RSub(RMul(RSub(One, cdfBeforeFace), RSub(One, cdfBeforeFace)),
              RMul(RSub(One, cdfAtFace), RSub(One, cdfAtFace)))

\* the return statement of probabilityOfFace
FaceChance(singleFace, cdfAtFace, cdfBeforeFace, advantageState) ==
    IF advantageState = "normal" THEN singleFace
    ELSE IF advantageState = "advantage"
    THEN RSub(RMul(cdfAtFace, cdfAtFace), RMul(cdfBeforeFace, cdfBeforeFace))
    ELSE RSub(RMul(RSub(One, cdfBeforeFace), RSub(One, cdfBeforeFace)),
              RMul(RSub(One, cdfAtFace), RSub(One, cdfAtFace)))

\* the last value the cdf loop of probabilityOfFace visits: it runs value = 1, 2, ...
\* over the array and breaks after the first value >= face
LastCdfValue(length, face) ==
    LET stop == IF face < 1 THEN 1 ELSE face
    IN  IF stop < length - 1 THEN stop ELSE length - 1

\* probabilityOfFace with the break of the cdf loop left out
probabilityOfFaceNoBreak(singleDieDistribution, face, advantageState) ==
    LET last == Cardinality(DOMAIN singleDieDistribution) - 1
    IN  FaceChance(FaceAt(singleDieDistribution, face),
                   RSumRange(singleDieDistribution, 1, last),
                   RSumRange(singleDieDistribution, 1, IF face - 1 < last THEN face - 1 ELSE last),
                   advantageState)

probabilityOfFace(singleDieDistribution, face, advantageState) ==
    LET last == LastCdfValue(Cardinality(DOMAIN singleDieDistribution), face)
    IN  FaceChance(FaceAt(singleDieDistribution, face),
                   RSumRange(singleDieDistribution, 1, last),
                   RSumRange(singleDieDistribution, 1, IF face - 1 < last THEN face - 1 ELSE last),
                   advantageState)

\* buildSingleDieDistribution that never rerolls
buildSingleDieDistributionUniform(dieSides, halflingLucky) ==
    MakeMap(0..dieSides, [face \in Int |-> IF face >= 1 THEN Rat(1, dieSides) ELSE Zero])

buildSingleDieDistribution(dieSides, halflingLucky) ==
    LET baseProbability == Rat(1, dieSides)
        rerollSameFace == RMul(baseProbability, baseProbability)
    IN  IF ~halflingLucky
        THEN MakeMap(0..dieSides, [face \in Int |-> IF face >= 1 THEN baseProbability ELSE Zero])
        ELSE MakeMap(0..dieSides, [face \in Int |->
                 IF face = 0 THEN Zero
                 ELSE IF face = 1 THEN rerollSameFace
                 ELSE RAdd(baseProbability, rerollSameFace)])

\* one dice term of buildAttackBonusDistribution
AttackBonusDice(component) ==
    OrThrow(uniformDie(component.sides), [die \in Any |->
        OrThrow(repeatConvolve(die, component.count), [diceDistribution \in Any |->
            IF component.sign < 0
            THEN mapOutcomes(diceDistribution, [outcome \in Int |-> -outcome])
            ELSE diceDistribution])])

\* the body of the component loop of buildAttackBonusDistribution
AddAttackBonusComponent(distribution, component) ==
    IF component.kind = "constant"
    THEN shift(distribution, component.value)
    ELSE OrThrow(AttackBonusDice(component), [diceDistribution \in Any |->
             convolve(distribution, diceDistribution)])

buildAttackBonusDistribution(expression) ==
    LET \* `distribution` after the first i components
        distribution[i \in 0..Len(expression)] ==
            IF i = 0 THEN constant(0)
            ELSE OrThrow(distribution[i - 1], [before \in Any |->
                     AddAttackBonusComponent(before, expression[i])])
    IN  distribution[Len(expression)]

\* ClassifyFace testing the auto-crit set before the auto-miss set
ClassifyFaceCritFirst(sums, chance, isAutoMiss, isAutoCrit, hitChanceGivenFace) ==
    IF isAutoCrit
    THEN [sums EXCEPT !.critical = RAdd(@, chance)]
    ELSE IF isAutoMiss
    THEN [sums EXCEPT !.miss = RAdd(@, chance)]
    ELSE [sums EXCEPT !.hit = RAdd(@, RMul(chance, hitChanceGivenFace)),
                      !.miss = RAdd(@, RMul(chance, RSub(One, hitChanceGivenFace)))]

\* ClassifyFace where an auto-crit face still has to reach the armor class
ClassifyFaceCritNeedsHit(sums, chance, isAutoMiss, isAutoCrit, hitChanceGivenFace) ==
    IF isAutoMiss
    THEN [sums EXCEPT !.miss = RAdd(@, chance)]
    ELSE IF isAutoCrit
    THEN [sums EXCEPT !.critical = RAdd(@, RMul(chance, hitChanceGivenFace)),
                      !.miss = RAdd(@, RMul(chance, RSub(One, hitChanceGivenFace)))]
    ELSE [sums EXCEPT !.hit = RAdd(@, RMul(chance, hitChanceGivenFace)),
                      !.miss = RAdd(@, RMul(chance, RSub(One, hitChanceGivenFace)))]

\* the body of the face loop of calculateAttackOutcomeProbabilities
ClassifyFace(sums, chance, isAutoMiss, isAutoCrit, hitChanceGivenFace) ==
    IF isAutoMiss
    THEN [sums EXCEPT !.miss = RAdd(@, chance)]
    ELSE IF isAutoCrit
    THEN [sums EXCEPT !.critical = RAdd(@, chance)]
    ELSE [sums EXCEPT !.hit = RAdd(@, RMul(chance, hitChanceGivenFace)),
                      !.miss = RAdd(@, RMul(chance, RSub(One, hitChanceGivenFace)))]

\* what the loop iteration for each face adds to miss, hit and critical
FaceContributions(input, attackBonusDistribution, singleDieDistribution) ==
    MakeSeq(input.rules.dieSides[1], [face \in Nat |->
        ClassifyFace([miss |-> Zero, hit |-> Zero, critical |-> Zero],
            probabilityOfFace(singleDieDistribution, face, input.advantageState),
            face \in input.rules.autoMissFaces,
            face \in input.rules.autoCritFaces,
            probabilityAtLeast(attackBonusDistribution, input.armorClass - face))])

\* miss, hit and critical after the face loop
SumContributions(added) ==
    [miss |-> RSum(MakeSeq(Len(added), [face \in Nat |-> added[face].miss])),
     hit |-> RSum(MakeSeq(Len(added), [face \in Nat |-> added[face].hit])),
     critical |-> RSum(MakeSeq(Len(added), [face \in Nat |-> added[face].critical]))]

calculateAttackOutcomeProbabilities(input) ==
    OrThrow(validateAttackRules(input.rules), [valid \in Any |->
        OrThrow(buildAttackBonusDistribution(input.attackBonusExpression),
            [attackBonusDistribution \in Any |->
                SumContributions(FaceContributions(input, attackBonusDistribution,
                    buildSingleDieDistribution(input.rules.dieSides[1],
                                               input.halflingLucky = TRUE)))])])

-----------------------------------------------------------------------------
(* packages/domain: the damage distribution model.                         *)

\* buildRerollLowDieDistribution with the threshold floored but not capped at sides
buildRerollLowDieDistributionUncapped(sides, rerollLowThreshold) ==
    IF rerollLowThreshold = Undefined \/ rerollLowThreshold[1] <= 0
    THEN uniformDie(sides)
    ELSE LET threshold == FromInt(RFloor(rerollLowThreshold))
             low == RDiv(threshold, RMul(sides, sides))
             high == RAdd(RDiv(One, sides), low)
         IN  fromEntries(MakeSeq(RFloor(sides), [face \in Nat |->
                 Entry(face, IF RLeq(FromInt(face), threshold) THEN low ELSE high)]))

buildRerollLowDieDistribution(sides, rerollLowThreshold) ==
    IF rerollLowThreshold = Undefined \/ rerollLowThreshold[1] <= 0
    THEN uniformDie(sides)
    ELSE LET floored == FromInt(RFloor(rerollLowThreshold))
             threshold == IF RLess(sides, floored) THEN sides ELSE floored
             low == RDiv(threshold, RMul(sides, sides))
             high == RAdd(RDiv(One, sides), low)
         IN  fromEntries(MakeSeq(RFloor(sides), [face \in Nat |->
                 Entry(face, IF RLeq(FromInt(face), threshold) THEN low ELSE high)]))

\* applyDamageModifier with resistance rounding half up
applyDamageModifierRoundUp(rawDamage, modifier) ==
    LET sanitized == IF RFloor(rawDamage) > 0 THEN RFloor(rawDamage) ELSE 0
    IN  IF modifier = "immune" THEN 0
        ELSE IF modifier = "resistant" THEN (sanitized + 1) \div 2
        ELSE IF modifier = "vulnerable" THEN sanitized * 2
        ELSE sanitized

\* applyDamageModifier flooring the raw damage without raising it to 0
applyDamageModifierSigned(rawDamage, modifier) ==
    LET sanitized == RFloor(rawDamage)
    IN  IF modifier = "immune" THEN 0
        ELSE IF modifier = "resistant" THEN sanitized \div 2
        ELSE IF modifier = "vulnerable" THEN sanitized * 2
        ELSE sanitized

applyDamageModifier(rawDamage, modifier) ==
    LET sanitized == IF RFloor(rawDamage) > 0 THEN RFloor(rawDamage) ELSE 0
    IN  IF modifier = "immune" THEN 0
        ELSE IF modifier = "resistant" THEN sanitized \div 2
        ELSE IF modifier = "vulnerable" THEN sanitized * 2
        ELSE sanitized

buildNonCriticalDamageModel(model) == [model EXCEPT !.criticalDiceMultiplier = One]

buildCriticalDamageModel(model) == [model EXCEPT !.criticalDiceMultiplier = model.criticalDiceMultiplier]

\* one dice term of buildDamageDistribution
DamageDice(component, criticalDiceMultiplier, rerollLowThreshold) ==
    OrThrow(buildRerollLowDieDistribution(component.sides, rerollLowThreshold),
        [dieDistribution \in Any |->
            OrThrow(repeatConvolve(dieDistribution, RMul(component.count, criticalDiceMultiplier)),
                [diceDistribution \in Any |->
                    IF component.sign < 0
                    THEN mapOutcomes(diceDistribution, [outcome \in Int |-> -outcome])
                    ELSE diceDistribution])])

\* DamageConstant with the constant multiplied like the dice
DamageConstantMultiplied(distribution, component, criticalDiceMultiplier) ==
    shift(distribution, component.value * criticalDiceMultiplier[1])

\* one constant term of buildDamageDistribution
DamageConstant(distribution, component, criticalDiceMultiplier) ==
    shift(distribution, component.value)

\* the body of the component loop of buildDamageDistribution
AddDamageComponent(distribution, component, criticalDiceMultiplier, rerollLowThreshold) ==
    IF component.kind = "constant"
    THEN DamageConstant(distribution, component, criticalDiceMultiplier)
    ELSE OrThrow(DamageDice(component, criticalDiceMultiplier, rerollLowThreshold),
             [diceDistribution \in Any |-> convolve(distribution, diceDistribution)])

buildDamageDistribution(expression, criticalDiceMultiplier, rerollLowThreshold) ==
    LET \* `distribution` after the first i components
        distribution[i \in 0..Len(expression)] ==
            IF i = 0 THEN constant(0)
            ELSE OrThrow(distribution[i - 1], [before \in Any |->
                     AddDamageComponent(before, expression[i], criticalDiceMultiplier,
                                        rerollLowThreshold)])
    IN  IF ~IsInteger(criticalDiceMultiplier) \/ criticalDiceMultiplier[1] <= 0
        THEN Throw("criticalDiceMultiplier must be a positive integer")
        ELSE distribution[Len(expression)]

applyModifierToDistribution(distribution, modifier) ==
    mapOutcomes(distribution, [outcome \in Int |-> applyDamageModifier(FromInt(outcome), modifier)])

resolveDiceRollMode(mode) == IF mode = UndefinedMode THEN "normal" ELSE mode

\* resolveDamageRollCount rounding a given count up instead of down
resolveDamageRollCountCeil(mode, count) ==
    IF count # Undefined
    THEN FromInt(IF -RFloor(RNeg(count)) > 1 THEN -RFloor(RNeg(count)) ELSE 1)
    ELSE IF mode = "normal" THEN FromInt(1) ELSE FromInt(2)

resolveDamageRollCount(mode, count) ==
    IF count # Undefined
    THEN FromInt(IF RFloor(count) > 1 THEN RFloor(count) ELSE 1)
    ELSE IF mode = "normal" THEN FromInt(1) ELSE FromInt(2)

\* Number.isFinite: Infinity is <<1, 0>>, -Infinity <<-1, 0>> and NaN <<0, 0>>
IsFinite(x) == x[2] # 0

\* the number returned is [value |-> n]
normalizeStepRepeat(repeat) ==
    IF repeat = Undefined THEN [value |-> 1]
    ELSE IF ~IsFinite(repeat) THEN Throw("repeat must be a finite number")
    ELSE IF RFloor(repeat) < 1 THEN Throw("repeat must be at least 1")
    ELSE [value |-> RFloor(repeat)]

applyDamageDiceRollMode(distribution, mode, rollCount) ==
    IF mode = "normal" THEN distribution
    ELSE IF RLeq(rollCount, One) THEN distribution
    ELSE IF mode = "disadvantage" THEN minOfIndependent(distribution, rollCount)
    ELSE maxOfIndependent(distribution, rollCount)

\* buildDamageDistribution on the fields of a damage model, then the roll mode
RollDamageModel(model, diceRollMode, damageRollCount) ==
    OrThrow(buildDamageDistribution(model.expression, model.criticalDiceMultiplier,
                                    model.rerollLowThreshold),
        [built \in Any |-> applyDamageDiceRollMode(built, diceRollMode, damageRollCount)])

\* rawHitDistribution (critical = FALSE) and rawCritDistribution (critical = TRUE)
\* of calculateAttackDamage
RawDamageDistribution(damage, critical) ==
    RollDamageModel(IF critical THEN buildCriticalDamageModel(damage)
                    ELSE buildNonCriticalDamageModel(damage),
                    resolveDiceRollMode(damage.diceRollMode),
                    resolveDamageRollCount(resolveDiceRollMode(damage.diceRollMode),
                                           damage.damageRollCount))

\* WeightedEntries with the weights of the hit and the critical entries exchanged
WeightedEntriesSwapped(probabilities, hitDamageDistribution, criticalDamageDistribution) ==
    <<Entry(0, probabilities.miss)>>
    \o MakeSeq(Len(hitDamageDistribution.entries), [i \in Nat |->
          Entry(hitDamageDistribution.entries[i].outcome,
                RMul(hitDamageDistribution.entries[i].probability, probabilities.critical))])
    \o MakeSeq(Len(criticalDamageDistribution.entries), [i \in Nat |->
          Entry(criticalDamageDistribution.entries[i].outcome,
                RMul(criticalDamageDistribution.entries[i].probability, probabilities.hit))])

\* weightedEntries of calculateAttackDamage
WeightedEntries(probabilities, hitDamageDistribution, criticalDamageDistribution) ==
    <<Entry(0, probabilities.miss)>>
    \o MakeSeq(Len(hitDamageDistribution.entries), [i \in Nat |->
          Entry(hitDamageDistribution.entries[i].outcome,
                RMul(hitDamageDistribution.entries[i].probability, probabilities.hit))])
    \o MakeSeq(Len(criticalDamageDistribution.entries), [i \in Nat |->
          Entry(criticalDamageDistribution.entries[i].outcome,
                RMul(criticalDamageDistribution.entries[i].probability, probabilities.critical))])

\* expectedDamagePerAttackBase of calculateAttackDamage
ExpectedDamagePerAttackBase(probabilities, expectedDamageOnHit, expectedDamageOnCritical) ==
    RAdd(RMul(probabilities.hit, expectedDamageOnHit),
         RMul(probabilities.critical, expectedDamageOnCritical))

\* the object calculateAttackDamage returns
AttackDamageResult(probabilities, hitDamageDistribution, criticalDamageDistribution, expectedDamageOnHit, expectedDamageOnCritical) ==
    [probabilities |-> probabilities,
     hitDamageDistribution |-> hitDamageDistribution,
     criticalDamageDistribution |-> criticalDamageDistribution,
     totalDamageDistribution |->
         fromEntries(WeightedEntries(probabilities, hitDamageDistribution,
                                     criticalDamageDistribution)),
     expectedDamageOnHit |-> expectedDamageOnHit,
     expectedDamageOnCritical |-> expectedDamageOnCritical,
     expectedDamagePerAttack |->
         ExpectedDamagePerAttackBase(probabilities, expectedDamageOnHit,
                                     expectedDamageOnCritical)]

\* calculateAttackDamage from the modified hit and critical distributions on
WeighDamage(probabilities, hitDamageDistribution, criticalDamageDistribution) ==
    AttackDamageResult(probabilities, hitDamageDistribution, criticalDamageDistribution,
                       expectation(hitDamageDistribution),
                       expectation(criticalDamageDistribution))

calculateAttackDamage(request) ==
    OrThrow(calculateAttackOutcomeProbabilities(request.attack), [probabilities \in Any |->
        OrThrow(RawDamageDistribution(request.damage, FALSE), [rawHitDistribution \in Any |->
            OrThrow(RawDamageDistribution(request.damage, TRUE), [rawCritDistribution \in Any |->
                WeighDamage(probabilities,
                    applyModifierToDistribution(rawHitDistribution, request.damage.modifier),
                    applyModifierToDistribution(rawCritDistribution, request.damage.modifier))])])])

-----------------------------------------------------------------------------
(* packages/domain: the plan aggregator.                                   *)

\* StepResult without repeatConvolve: the distribution of a single trial
StepResultSingleTrial(step, repeat, result) ==
    [request |-> step.request,
     repeat |-> repeat,
     result |-> result,
     totalDamageDistribution |-> result.totalDamageDistribution,
     expectedDamageTotal |-> RMul(result.expectedDamagePerAttack, FromInt(repeat))]

\* the AttackDamagePlanStepResult pushed for one step
StepResult(step, repeat, result) ==
    [request |-> step.request,
     repeat |-> repeat,
     result |-> result,
     totalDamageDistribution |-> repeatConvolve(result.totalDamageDistribution, FromInt(repeat)),
     expectedDamageTotal |-> RMul(result.expectedDamagePerAttack, FromInt(repeat))]

\* one iteration of the step loop up to the push
ResolveStep(step) ==
    OrThrow(normalizeStepRepeat(step.repeat), [repeat \in Any |->
        OrThrow(calculateAttackDamage(step.request), [result \in Any |->
            StepResult(step, repeat.value, result)])])

\* totalDamageDistribution after the step loop
PlanTotal(resolvedSteps) ==
    LET total[i \in 0..Len(resolvedSteps)] ==
            IF i = 0 THEN constant(0)
            ELSE convolve(total[i - 1], resolvedSteps[i].totalDamageDistribution)
    IN  total[Len(resolvedSteps)]

\* the object calculateAttackDamagePlan returns
PlanResult(resolvedSteps, totalDamageDistribution) ==
    [steps |-> resolvedSteps,
     totalDamageDistribution |-> totalDamageDistribution,
     expectedDamagePerPlan |-> expectation(totalDamageDistribution)]

\* the step loop: the first step that throws ends the call
RunSteps(resolvedSteps) ==
    LET failed == {i \in 1..Len(resolvedSteps) : IsError(resolvedSteps[i])}
    IN  IF failed # {} THEN resolvedSteps[CHOOSE i \in failed : \A j \in failed : i <= j]
        ELSE PlanResult(resolvedSteps, PlanTotal(resolvedSteps))

calculateAttackDamagePlan(steps) ==
    RunSteps(MakeSeq(Len(steps), [i \in Nat |-> ResolveStep(steps[i])]))

-----------------------------------------------------------------------------
(* Bounds of the model and the inputs drawn from them.                     *)

MaxSides == 3            \* engine: dice of up to MaxSides sides
MaxShift == 1            \* engine: shift amounts and constants -MaxShift..MaxShift
MaxTimes == 2            \* engine: repeatConvolve 0..MaxTimes times
MaxCount == 2            \* engine: max / min of 0..MaxCount draws
MaxOps == 3              \* engine: operations applied to one distribution
MaxDenominator == 16     \* engine: operands keep denominators up to MaxDenominator
MaxDieSides == 3         \* attack: attack dice of 2..MaxDieSides sides
MaxArmorClass == 4       \* attack: armor classes 1..MaxArmorClass
MaxBonus == 1            \* attack: constant attack bonus 0..MaxBonus
MaxSingleRollArmorClass == 23
MaxSingleRollBonus == 5  \* single roll: attack bonus -MaxSingleRollBonus..MaxSingleRollBonus
MaxMultiplier == 2       \* damage: criticalDiceMultiplier 1..MaxMultiplier
MaxSteps == 2            \* plan: plans of 0..MaxSteps steps
MaxDifficultyClass == 24 \* save: difficulty classes 0..MaxDifficultyClass and halves
MaxSaveBonus == 4        \* save: save bonus -MaxSaveBonus..MaxSaveBonus
MaxEntries == 2          \* worker: requests of 0..MaxEntries attack entries

AdvantageStates == {"normal", "advantage", "disadvantage"}
DamageModifiers == {"normal", "resistant", "vulnerable", "immune"}

\* the die the closed form of the single roll is written for
D20Sides == 20

AttackBonusExpressions ==
    {<<Const(b)>> : b \in 0..MaxBonus}
    \cup {<<Const(b), Dice(1, 2, sign)>> : b \in 0..MaxBonus, sign \in {1, -1}}

AttackInputs ==
    LET \* auto-miss face lists of a die of d sides: none, the lowest face, both ends
        MissFaceSets(d) == {{}, {1}, {1, d}}
        \* auto-crit face lists: none, the highest face, the two highest faces, both ends
        CritFaceSets(d) == {{}, {d}, {d - 1, d}, {1, d}}
        RuleConfigs ==
            UNION {{[dieSides |-> FromInt(d), autoMissFaces |-> m, autoCritFaces |-> c] :
                       m \in MissFaceSets(d), c \in CritFaceSets(d)} : d \in 2..MaxDieSides}
    IN  {[armorClass |-> ac, attackBonusExpression |-> e, advantageState |-> a,
          rules |-> r, halflingLucky |-> l] :
            ac \in 1..MaxArmorClass, e \in AttackBonusExpressions, a \in AdvantageStates,
            r \in RuleConfigs, l \in BOOLEAN}

\* callbacks handed to mapOutcomes: the sign flip of a subtracted dice term and the
\* damage modifiers
Transforms == {"negate"} \cup DamageModifiers

Transform(name, outcome) ==
    IF name = "negate" THEN -outcome ELSE applyDamageModifier(FromInt(outcome), name)

\* sides, times and count arguments: the integers of the range, a negative one and
\* one fraction
NumberInputs(max) == {FromInt(n) : n \in -1..max} \cup {<<5, 2>>}

\* right-hand operands of convolve
Operands ==
    {constant(value) : value \in -MaxShift..MaxShift}
    \cup {uniformDie(FromInt(sides)) : sides \in 1..MaxSides}

\* the AttackCheckInput of the general model a single roll stands for
SingleRollAsAttack(roll) ==
    [armorClass |-> roll.armorClass,
     attackBonusExpression |-> <<Const(roll.attackBonus)>>,
     advantageState |-> "normal",
     rules |-> [dieSides |-> FromInt(D20Sides), autoMissFaces |-> {1},
                autoCritFaces |-> roll.criticalThreshold..D20Sides],
     halflingLucky |-> FALSE]

\* attack checks of the damage requests: one third each; advantage; never hitting
DamageRequests ==
    LET DamageAttackInputs ==
            {[armorClass |-> 2, attackBonusExpression |-> <<Const(0)>>, advantageState |-> "normal",
              rules |-> [dieSides |-> FromInt(3), autoMissFaces |-> {1}, autoCritFaces |-> {3}],
              halflingLucky |-> FALSE],
             [armorClass |-> 2, attackBonusExpression |-> <<Const(0)>>, advantageState |-> "advantage",
              rules |-> [dieSides |-> FromInt(3), autoMissFaces |-> {1}, autoCritFaces |-> {3}],
              halflingLucky |-> FALSE],
             [armorClass |-> 4, attackBonusExpression |-> <<Const(0)>>, advantageState |-> "normal",
              rules |-> [dieSides |-> FromInt(2), autoMissFaces |-> {}, autoCritFaces |-> {}],
              halflingLucky |-> FALSE]}
        \* 1d2+1, 1d3, 2, 1d2-1d2, 2d2-1
        DamageExpressions ==
            {<<Dice(1, 2, 1), Const(1)>>, <<Dice(1, 3, 1)>>, <<Const(2)>>,
             <<Dice(1, 2, 1), Dice(1, 2, -1)>>, <<Dice(2, 2, 1), Const(-1)>>}
        DamageModels ==
            [expression : DamageExpressions,
             criticalDiceMultiplier : {FromInt(m) : m \in 1..MaxMultiplier},
             modifier : DamageModifiers,
             diceRollMode : {UndefinedMode, "advantage", "disadvantage"},
             damageRollCount : {Undefined, <<5, 2>>},
             rerollLowThreshold : {Undefined, FromInt(1)}]
    IN  [attack : DamageAttackInputs, damage : DamageModels]

\* the requests of the plan steps: 1d2+1 against armor class 2 on a d3, and a flat 3
\* with resistance that hits on the upper face of a d2
PlanRequests ==
    {[attack |-> [armorClass |-> 2, attackBonusExpression |-> <<Const(0)>>,
                  advantageState |-> "normal",
                  rules |-> [dieSides |-> FromInt(3), autoMissFaces |-> {1},
                             autoCritFaces |-> {3}],
                  halflingLucky |-> FALSE],
      damage |-> [expression |-> <<Dice(1, 2, 1), Const(1)>>,
                  criticalDiceMultiplier |-> FromInt(2), modifier |-> "normal",
                  diceRollMode |-> UndefinedMode, damageRollCount |-> Undefined,
                  rerollLowThreshold |-> Undefined]],
     [attack |-> [armorClass |-> 3, attackBonusExpression |-> <<Const(1)>>,
                  advantageState |-> "normal",
                  rules |-> [dieSides |-> FromInt(2), autoMissFaces |-> {},
                             autoCritFaces |-> {}],
                  halflingLucky |-> FALSE],
      damage |-> [expression |-> <<Const(3)>>,
                  criticalDiceMultiplier |-> FromInt(1), modifier |-> "resistant",
                  diceRollMode |-> UndefinedMode, damageRollCount |-> Undefined,
                  rerollLowThreshold |-> Undefined]]}

\* repeat: absent, 1, 2, 2.5, 0, Infinity
RepeatInputs == {Undefined, <<1, 1>>, <<2, 1>>, <<5, 2>>, <<0, 1>>, <<1, 0>>}

PlanInputs ==
    LET PlanStepInputs == [request : PlanRequests, repeat : RepeatInputs]
    IN  UNION {[1..n -> PlanStepInputs] : n \in 0..MaxSteps}

-----------------------------------------------------------------------------
(* The callers: each behaviour is a caller handing inputs to the library.  *)

AlgebraIdle == dist = None /\ opCount = 0
AttackIdle == attack = None /\ attackResult = None /\ previous = None
SingleRollIdle == singleRoll = None /\ singleRollResult = None
DamageIdle == damageRequest = None /\ damageResult = None
PlanIdle == plan = None /\ planResult = None
CallIdle == call = None /\ returned = None

\* no App is rendered
AppIdle ==
    /\ phase = "idle" /\ computeInput = None /\ uiErrorMessage = "" /\ uiResult = None
    /\ isComputing = FALSE /\ activeWorkerRef = 0 /\ requestIdRef = 0
    /\ debounceTimerRef = 0 /\ timers = {} /\ workers = <<>> /\ events = <<>>

algebraVars == <<dist, opCount>>
attackVars == <<attack, attackResult, previous>>
singleRollVars == <<singleRoll, singleRollResult>>
damageVars == <<damageRequest, damageResult>>
planVars == <<plan, planResult>>
callVars == <<call, returned>>

(* The engine: a caller builds a distribution and applies operations to it. *)

InitAlgebra == AlgebraIdle /\ AppIdle /\ CallIdle /\ AttackIdle /\ SingleRollIdle /\ DamageIdle /\ PlanIdle

\* every probability of the distribution has a denominator within the bound
Exact(distribution) ==
    \A i \in 1..Len(distribution.entries) :
        distribution.entries[i].probability[2] <= MaxDenominator

\* the caller of the engine holds nothing yet
CanBuild ==
    /\ dist = None
    /\ attack = None /\ singleRoll = None /\ damageRequest = None /\ plan = None

\* the caller holds a distribution and applies one more operation to it
CanApply ==
    /\ dist # None
    /\ ~IsError(dist)
    /\ opCount < MaxOps
    /\ Exact(dist)

Built == UNCHANGED <<appVars, opCount, attackVars, singleRollVars, damageVars, planVars, callVars>>

\* a call that threw leaves the caller with the error
Applied ==
    /\ opCount' = opCount + 1
    /\ UNCHANGED <<appVars, attackVars, singleRollVars, damageVars, planVars, callVars>>

Constant(value) ==
    /\ CanBuild
    /\ dist' = constant(value)
    /\ Built

UniformDie(sides) ==
    /\ CanBuild
    /\ dist' = uniformDie(sides)
    /\ Built

Shift(amount) ==
    /\ CanApply
    /\ dist' = shift(dist, amount)
    /\ Applied

MapOutcomes(name) ==
    /\ CanApply
    /\ dist' = mapOutcomes(dist, [outcome \in Int |-> Transform(name, outcome)])
    /\ Applied

Convolve(right) ==
    /\ CanApply
    /\ dist' = convolve(dist, right)
    /\ Applied

RepeatConvolve(times) ==
    /\ CanApply
    /\ dist' = repeatConvolve(dist, times)
    /\ Applied

MaxOfIndependent(count) ==
    /\ CanApply
    /\ dist' = maxOfIndependent(dist, count)
    /\ Applied

MinOfIndependent(count) ==
    /\ CanApply
    /\ dist' = minOfIndependent(dist, count)
    /\ Applied

NextAlgebra ==
    \/ \E value \in -MaxShift..MaxShift : Constant(value)
    \/ \E sides \in NumberInputs(MaxSides) : UniformDie(sides)
    \/ \E amount \in -MaxShift..MaxShift : Shift(amount)
    \/ \E name \in Transforms : MapOutcomes(name)
    \/ \E right \in Operands : Convolve(right)
    \/ \E times \in NumberInputs(MaxTimes) : RepeatConvolve(times)
    \/ \E count \in NumberInputs(MaxCount) : MaxOfIndependent(count)
    \/ \E count \in NumberInputs(MaxCount) : MinOfIndependent(count)

SpecAlgebra == InitAlgebra /\ [][NextAlgebra]_vars

(* The attack probability model.                                           *)

InitAttack ==
    /\ attack \in AttackInputs
    /\ attackResult = None
    /\ previous = None
    /\ AlgebraIdle /\ AppIdle /\ CallIdle /\ SingleRollIdle /\ DamageIdle /\ PlanIdle

CalculateAttackOutcomeProbabilities ==
    /\ attack # None
    /\ attackResult = None
    /\ attackResult' = calculateAttackOutcomeProbabilities(attack)
    /\ UNCHANGED <<appVars, attack, previous, algebraVars, singleRollVars, damageVars, planVars, callVars>>

\* the caller repeats the calculation with another advantage state
ChangeAdvantageState(state) ==
    /\ attackResult # None
    /\ previous = None
    /\ state # attack.advantageState
    /\ previous' = [input |-> attack, result |-> attackResult]
    /\ attack' = [attack EXCEPT !.advantageState = state]
    /\ attackResult' = None
    /\ UNCHANGED <<appVars, algebraVars, singleRollVars, damageVars, planVars, callVars>>

\* the caller repeats the calculation against another armor class and attack bonus
ChangeTarget(armorClass, expression) ==
    /\ attackResult # None
    /\ previous = None
    /\ <<armorClass, expression>> # <<attack.armorClass, attack.attackBonusExpression>>
    /\ previous' = [input |-> attack, result |-> attackResult]
    /\ attack' = [attack EXCEPT !.armorClass = armorClass, !.attackBonusExpression = expression]
    /\ attackResult' = None
    /\ UNCHANGED <<appVars, algebraVars, singleRollVars, damageVars, planVars, callVars>>

SpecAttack == InitAttack /\ [][CalculateAttackOutcomeProbabilities]_vars

NextAdvantage ==
    \/ CalculateAttackOutcomeProbabilities
    \/ \E state \in AdvantageStates : ChangeAdvantageState(state)

SpecAdvantage == InitAttack /\ [][NextAdvantage]_vars

NextTarget ==
    \/ CalculateAttackOutcomeProbabilities
    \/ \E armorClass \in 1..MaxArmorClass, expression \in AttackBonusExpressions :
          ChangeTarget(armorClass, expression)

SpecTarget == InitAttack /\ [][NextTarget]_vars

(* The closed form of a single roll beside the general model.              *)

InitSingleRoll ==
    /\ singleRoll \in [armorClass : 0..MaxSingleRollArmorClass,
                      attackBonus : -MaxSingleRollBonus..MaxSingleRollBonus,
                      criticalThreshold : 2..D20Sides]
    /\ singleRollResult = None
    /\ attack = SingleRollAsAttack(singleRoll)
    /\ attackResult = None
    /\ previous = None
    /\ AlgebraIdle /\ AppIdle /\ CallIdle /\ DamageIdle /\ PlanIdle

CalculateSingleRollAttackProbabilities ==
    /\ singleRoll # None
    /\ singleRollResult = None
    /\ singleRollResult' =
           calculateSingleRollAttackProbabilities(singleRoll.armorClass, singleRoll.attackBonus,
                                                  singleRoll.criticalThreshold)
    /\ UNCHANGED <<appVars, singleRoll, attackVars, algebraVars, damageVars, planVars, callVars>>

NextSingleRoll ==
    \/ CalculateSingleRollAttackProbabilities
    \/ CalculateAttackOutcomeProbabilities

SpecSingleRoll == InitSingleRoll /\ [][NextSingleRoll]_vars

(* The damage model and the plan aggregator.                               *)

InitDamage ==
    /\ damageRequest \in DamageRequests
    /\ damageResult = None
    /\ AlgebraIdle /\ AppIdle /\ CallIdle /\ AttackIdle /\ SingleRollIdle /\ PlanIdle

CalculateAttackDamage ==
    /\ damageRequest # None
    /\ damageResult = None
    /\ damageResult' = calculateAttackDamage(damageRequest)
    /\ UNCHANGED <<appVars, damageRequest, algebraVars, attackVars, singleRollVars, planVars, callVars>>

SpecDamage == InitDamage /\ [][CalculateAttackDamage]_vars

InitPlan ==
    /\ plan \in [steps : PlanInputs]
    /\ planResult = None
    /\ AlgebraIdle /\ AppIdle /\ CallIdle /\ AttackIdle /\ SingleRollIdle /\ DamageIdle

CalculateAttackDamagePlan ==
    /\ plan # None
    /\ planResult = None
    /\ planResult' = calculateAttackDamagePlan(plan.steps)
    /\ UNCHANGED <<appVars, plan, algebraVars, attackVars, singleRollVars, damageVars, callVars>>

SpecPlan == InitPlan /\ [][CalculateAttackDamagePlan]_vars

(* Every caller of the engine: the algebra, the damage model and the plan. *)

InitDistributions == InitAlgebra \/ InitDamage \/ InitPlan

NextDistributions ==
    \/ NextAlgebra
    \/ CalculateAttackDamage
    \/ CalculateAttackDamagePlan

SpecDistributions == InitDistributions /\ [][NextDistributions]_vars

-----------------------------------------------------------------------------
(* Properties.                                                             *)

InUnit(p) == RLeq(Zero, p) /\ RLeq(p, One)

\* a call has returned, and it returned a value rather than throwing
Succeeded(result) == result # None /\ ~IsError(result)

Outcomes(distribution) ==
    {distribution.entries[i].outcome : i \in 1..Len(distribution.entries)}

\* the probability a distribution gives to outcome x, zero when x is no outcome of it
ProbabilityAt(distribution, x) ==
    LET at == SelectSeq(distribution.entries, LAMBDA e : e.outcome = x)
    IN  RSum(MakeSeq(Len(at), [i \in Nat |-> at[i].probability]))

\* the sum of F over a finite set of integers
SumOver(S, F) ==
    LET order == SortedSeq(S)
    IN  RSum(MakeSeq(Len(order), [i \in Nat |-> F[order[i]]]))

TotalOne(distribution) ==
    /\ distribution.totalProbability = One
    /\ SumOver(Outcomes(distribution), [x \in Int |-> ProbabilityAt(distribution, x)]) = One

\* C1: for every valid attack check the three outcome probabilities sum to one and
\* each of them lies between zero and one.
OutcomesSumToOne ==
    attackResult # None =>
        /\ ~IsError(attackResult)
        /\ RAdd(RAdd(attackResult.miss, attackResult.hit), attackResult.critical) = One
        /\ InUnit(attackResult.miss) /\ InUnit(attackResult.hit) /\ InUnit(attackResult.critical)

OutcomesSumToOneWitness ==
    /\ attackResult # None
    /\ attack.halflingLucky
    /\ attack.advantageState = "disadvantage"
    /\ Len(attack.attackBonusExpression) = 2
    /\ attack.rules.autoMissFaces \cap attack.rules.autoCritFaces # {}
    /\ RLess(Zero, attackResult.miss) /\ RLess(Zero, attackResult.hit)
    /\ RLess(Zero, attackResult.critical)

\* C2: every distribution the engine hands back has total probability 1: the ones
\* built by constant and uniformDie, the ones shift, mapOutcomes, convolve,
\* repeatConvolve, maxOfIndependent and minOfIndependent return for them, the hit,
\* critical and total distributions of calculateAttackDamage, and the distributions
\* of a plan and of its steps.
DistributionsTotalOne ==
    /\ Succeeded(dist) => TotalOne(dist)
    /\ Succeeded(damageResult) =>
           /\ TotalOne(damageResult.hitDamageDistribution)
           /\ TotalOne(damageResult.criticalDamageDistribution)
           /\ TotalOne(damageResult.totalDamageDistribution)
    /\ Succeeded(planResult) =>
           /\ TotalOne(planResult.totalDamageDistribution)
           /\ \A i \in 1..Len(planResult.steps) :
                  TotalOne(planResult.steps[i].totalDamageDistribution)

DistributionsTotalOneWitness ==
    /\ Succeeded(dist)
    /\ opCount >= 2
    /\ Len(dist.entries) >= 4
    /\ \E i \in 1..Len(dist.entries) :
           dist.entries[i].probability # dist.entries[1].probability

\* C3: expectedDamagePerAttack is hit * expectedDamageOnHit + critical *
\* expectedDamageOnCritical, it is the expectation of totalDamageDistribution, and
\* totalDamageDistribution gives every outcome x the probability
\* miss * [x = 0] + hit * P_hit(x) + critical * P_crit(x).
WeightedExpectedDamage ==
    Succeeded(damageResult) =>
        LET p == damageResult.probabilities
            hit == damageResult.hitDamageDistribution
            crit == damageResult.criticalDamageDistribution
            total == damageResult.totalDamageDistribution
        IN  /\ damageResult.expectedDamageOnHit = expectation(hit)
            /\ damageResult.expectedDamageOnCritical = expectation(crit)
            /\ damageResult.expectedDamagePerAttack =
                   RAdd(RMul(p.hit, damageResult.expectedDamageOnHit),
                        RMul(p.critical, damageResult.expectedDamageOnCritical))
            /\ damageResult.expectedDamagePerAttack = expectation(total)
            /\ Outcomes(total) = {0} \cup Outcomes(hit) \cup Outcomes(crit)
            /\ \A x \in Outcomes(total) :
                   ProbabilityAt(total, x) =
                       RAdd(RAdd(IF x = 0 THEN p.miss ELSE Zero,
                                 RMul(p.hit, ProbabilityAt(hit, x))),
                            RMul(p.critical, ProbabilityAt(crit, x)))

WeightedExpectedDamageWitness ==
    /\ Succeeded(damageResult)
    /\ RLess(Zero, damageResult.probabilities.miss)
    /\ RLess(Zero, damageResult.probabilities.hit)
    /\ RLess(damageResult.probabilities.hit, damageResult.probabilities.critical)
    /\ 0 \in Outcomes(damageResult.hitDamageDistribution)
    /\ Cardinality(Outcomes(damageResult.hitDamageDistribution)
                   \cap Outcomes(damageResult.criticalDamageDistribution)) >= 2
    /\ RLess(Zero, damageResult.expectedDamagePerAttack)

\* the repeat count the plan uses for a step: 1 when absent, else rounded down
StepRepeat(step) == IF step.repeat = Undefined THEN 1 ELSE RFloor(step.repeat)

\* C4: the expected damage of a plan is the expectation of its total distribution and
\* the sum over its steps of expectedDamageTotal, which is the per-attack expectation
\* of the step's request on its own times the repeat count (1 when absent); an empty
\* plan has the distribution constant(0) and the expectation 0.
PlanExpectationAdditive ==
    Succeeded(planResult) =>
        /\ Len(planResult.steps) = Len(plan.steps)
        /\ \A i \in 1..Len(plan.steps) :
               /\ planResult.steps[i].repeat = StepRepeat(plan.steps[i])
               /\ planResult.steps[i].expectedDamageTotal =
                      RMul(calculateAttackDamage(plan.steps[i].request).expectedDamagePerAttack,
                           FromInt(StepRepeat(plan.steps[i])))
        /\ planResult.expectedDamagePerPlan =
               SumOver(1..Len(plan.steps), [i \in Int |-> planResult.steps[i].expectedDamageTotal])
        /\ planResult.expectedDamagePerPlan = expectation(planResult.totalDamageDistribution)
        /\ Len(plan.steps) = 0 =>
               /\ planResult.totalDamageDistribution = constant(0)
               /\ planResult.expectedDamagePerPlan = Zero

PlanExpectationAdditiveWitness ==
    /\ Succeeded(planResult)
    /\ Len(plan.steps) = 2
    /\ plan.steps[1].repeat = <<5, 2>>
    /\ plan.steps[2].repeat = Undefined
    /\ plan.steps[1].request # plan.steps[2].request
    /\ planResult.steps[1].repeat = 2
    /\ RLess(Zero, planResult.steps[1].expectedDamageTotal)
    /\ RLess(Zero, planResult.steps[2].expectedDamageTotal)

\* sum over the dice terms of sign * count * (sides + 1) / 2
DiceMean(expression) ==
    SumOver(1..Len(expression), [i \in Int |->
        IF expression[i].kind = "dice"
        THEN RMul(FromInt(expression[i].sign),
                  RMul(expression[i].count, RDiv(RAdd(expression[i].sides, One), FromInt(2))))
        ELSE Zero])

\* sum of the constant terms
ConstantSum(expression) ==
    SumOver(1..Len(expression), [i \in Int |->
        IF expression[i].kind = "constant" THEN FromInt(expression[i].value) ELSE Zero])

\* no reroll threshold, the normal roll mode and the modifier normal
Plain(damage) ==
    /\ damage.rerollLowThreshold = Undefined
    /\ resolveDiceRollMode(damage.diceRollMode) = "normal"
    /\ damage.modifier = "normal"

NonNegative(distribution) == \A x \in Outcomes(distribution) : x >= 0

\* C5 as stated: without reroll, roll mode and modifier, E[crit] - E[hit] is
\* (multiplier - 1) times the dice mean of the expression.
CriticalAddsDiceMean ==
    (Succeeded(damageResult) /\ Plain(damageRequest.damage)) =>
        RSub(damageResult.expectedDamageOnCritical, damageResult.expectedDamageOnHit) =
            RMul(RSub(damageRequest.damage.criticalDiceMultiplier, One),
                 DiceMean(damageRequest.damage.expression))

\* C5: the hit branch does not depend on criticalDiceMultiplier; without reroll, roll
\* mode and modifier the summed hit distribution has the mean constants + dice mean
\* and the summed critical distribution constants + multiplier * dice mean, and when
\* neither has a negative outcome these are expectedDamageOnHit and
\* expectedDamageOnCritical, so that E[crit] - E[hit] = (multiplier - 1) * dice mean;
\* 1d6+2 with multiplier 2 gives 5.5 and 9.
CriticalAddsDiceMeanWhenNonNegative ==
    /\ expectation(buildDamageDistribution(<<Dice(1, 6, 1), Const(2)>>, One, Undefined))
           = <<11, 2>>
    /\ expectation(buildDamageDistribution(<<Dice(1, 6, 1), Const(2)>>, FromInt(2), Undefined))
           = <<9, 1>>
    /\ Succeeded(damageResult) =>
           damageResult.hitDamageDistribution =
               calculateAttackDamage(
                   [damageRequest EXCEPT !.damage.criticalDiceMultiplier = One]).hitDamageDistribution
    /\ (Succeeded(damageResult) /\ Plain(damageRequest.damage)) =>
           LET damage == damageRequest.damage
               rawHit == RawDamageDistribution(damage, FALSE)
               rawCrit == RawDamageDistribution(damage, TRUE)
               hitMean == RAdd(ConstantSum(damage.expression), DiceMean(damage.expression))
               critMean == RAdd(ConstantSum(damage.expression),
                                RMul(damage.criticalDiceMultiplier, DiceMean(damage.expression)))
           IN  /\ expectation(rawHit) = hitMean
               /\ expectation(rawCrit) = critMean
               /\ (NonNegative(rawHit) /\ NonNegative(rawCrit)) =>
                      /\ damageResult.expectedDamageOnHit = hitMean
                      /\ damageResult.expectedDamageOnCritical = critMean
                      /\ RSub(damageResult.expectedDamageOnCritical,
                              damageResult.expectedDamageOnHit) =
                             RMul(RSub(damage.criticalDiceMultiplier, One),
                                  DiceMean(damage.expression))

CriticalAddsDiceMeanWitness ==
    /\ Succeeded(damageResult)
    /\ Plain(damageRequest.damage)
    /\ damageRequest.damage.expression = <<Dice(1, 2, 1), Const(1)>>
    /\ damageRequest.damage.criticalDiceMultiplier = FromInt(2)
    /\ damageResult.expectedDamageOnHit = <<5, 2>>
    /\ damageResult.expectedDamageOnCritical = <<4, 1>>

NonMiss(result) == RAdd(result.hit, result.critical)

\* disadvantage below normal below advantage
AdvantageRank(state) ==
    IF state = "advantage" THEN 3 ELSE IF state = "normal" THEN 2 ELSE 1

\* two results for inputs that differ in the advantage state only: the one of the
\* higher state has the strictly greater hit + critical
StrictlyOrdered ==
    IF AdvantageRank(previous.input.advantageState) < AdvantageRank(attack.advantageState)
    THEN RLess(NonMiss(previous.result), NonMiss(attackResult))
    ELSE RLess(NonMiss(attackResult), NonMiss(previous.result))

\* the lowest face is the one auto-miss face and the auto-crit faces are c..dieSides
\* for a c of 2 or more
LowestMissesTopCrits(config) ==
    /\ config.autoMissFaces = {1}
    /\ \E c \in 2..config.dieSides[1] : config.autoCritFaces = c..config.dieSides[1]

\* C6 as stated: for the same armor class, attack bonus and rules, hit + critical
\* under advantage is strictly above the one under normal, which is strictly above
\* the one under disadvantage.
AdvantageStrictlyIncreases ==
    (previous # None /\ Succeeded(attackResult)) => StrictlyOrdered

\* C6: for the same armor class, attack bonus and rules whose auto-miss faces are {1}
\* and whose auto-crit faces are c..dieSides with c >= 2, hit + critical under
\* advantage is strictly above the one under normal, which is strictly above the one
\* under disadvantage.
AdvantageStrictlyIncreasesWithAutoFaces ==
    (previous # None /\ Succeeded(attackResult) /\ LowestMissesTopCrits(attack.rules))
        => StrictlyOrdered

AdvantageStrictlyIncreasesWitness ==
    /\ previous # None
    /\ Succeeded(attackResult)
    /\ LowestMissesTopCrits(attack.rules)
    /\ attack.halflingLucky
    /\ Len(attack.attackBonusExpression) = 2
    /\ previous.input.advantageState = "normal"
    /\ attack.advantageState = "advantage"
    /\ RLess(Zero, previous.result.hit)
    /\ RLess(NonMiss(previous.result), NonMiss(attackResult))

\* C7: for every armor class, attack bonus and critical threshold c in 2..20 the
\* closed form of the single roll returns the miss, hit and critical of the general
\* model for a constant bonus, normal rolls, no halflingLucky, a d20, auto-miss {1}
\* and auto-crit c..20.
SingleRollMatchesGeneralModel ==
    (singleRoll # None /\ singleRollResult # None /\ attackResult # None) =>
        /\ ~IsError(attackResult)
        /\ singleRollResult = attackResult

SingleRollMatchesGeneralModelWitness ==
    /\ singleRoll = [armorClass |-> 15, attackBonus |-> 5, criticalThreshold |-> 19]
    /\ attackResult # None
    /\ singleRollResult = [miss |-> <<9, 20>>, hit |-> <<9, 20>>, critical |-> <<1, 10>>]

\* C8: a face in the auto-miss set gives its whole probability to miss, also when it
\* is an auto-crit face; any other face in the auto-crit set gives its whole
\* probability to critical; every remaining face f gives the share
\* P(attack bonus >= armorClass - f) to hit and the rest to miss.
FaceClassification ==
    Succeeded(attackResult) =>
        LET faces == 1..attack.rules.dieSides[1]
            single == buildSingleDieDistribution(attack.rules.dieSides[1], attack.halflingLucky)
            bonus == buildAttackBonusDistribution(attack.attackBonusExpression)
            chance(f) == probabilityOfFace(single, f, attack.advantageState)
            share(f) == probabilityAtLeast(bonus, attack.armorClass - f)
            missFaces == faces \cap attack.rules.autoMissFaces
            critFaces == (faces \cap attack.rules.autoCritFaces) \ attack.rules.autoMissFaces
            rest == faces \ (attack.rules.autoMissFaces \cup attack.rules.autoCritFaces)
        IN  /\ attackResult.critical = SumOver(critFaces, [f \in Int |-> chance(f)])
            /\ attackResult.hit = SumOver(rest, [f \in Int |-> RMul(chance(f), share(f))])
            /\ attackResult.miss =
                   RAdd(SumOver(missFaces, [f \in Int |-> chance(f)]),
                        SumOver(rest, [f \in Int |-> RMul(chance(f), RSub(One, share(f)))]))

FaceClassificationWitness ==
    /\ Succeeded(attackResult)
    /\ attack.rules.autoMissFaces \cap attack.rules.autoCritFaces # {}
    /\ attack.rules.autoCritFaces \ attack.rules.autoMissFaces # {}
    /\ \E f \in 1..attack.rules.dieSides[1] :
           /\ f \notin attack.rules.autoMissFaces \cup attack.rules.autoCritFaces
           /\ probabilityAtLeast(buildAttackBonusDistribution(attack.attackBonusExpression),
                                 attack.armorClass - f) = <<1, 2>>

\* C9: two attack checks that agree on rules, advantage state and halflingLucky and
\* differ in armor class or attack bonus expression have the same critical
\* probability.
CriticalIndependentOfTarget ==
    (previous # None /\ Succeeded(attackResult)) =>
        previous.result.critical = attackResult.critical

CriticalIndependentOfTargetWitness ==
    /\ previous # None
    /\ Succeeded(attackResult)
    /\ previous.input.armorClass # attack.armorClass
    /\ Len(previous.input.attackBonusExpression) # Len(attack.attackBonusExpression)
    /\ previous.result.hit # attackResult.hit
    /\ RLess(Zero, attackResult.critical)
    /\ RLess(attackResult.critical, One)

\* what the claim says applyDamageModifier returns for an integer raw damage
ModifiedDamage(raw, modifier) ==
    LET floored == IF raw > 0 THEN raw ELSE 0
    IN  IF modifier = "immune" THEN 0
        ELSE IF modifier = "resistant" THEN floored \div 2
        ELSE IF modifier = "vulnerable" THEN floored * 2
        ELSE floored

\* `modified` is `raw` with the modifier applied to each of its outcomes
ModifiedPerOutcome(raw, modified, modifier) ==
    /\ Outcomes(modified) = {ModifiedDamage(x, modifier) : x \in Outcomes(raw)}
    /\ \A y \in Outcomes(modified) :
           ProbabilityAt(modified, y) =
               SumOver({x \in Outcomes(raw) : ModifiedDamage(x, modifier) = y},
                       [x \in Int |-> ProbabilityAt(raw, x)])

\* C10: applyDamageModifier rounds the raw damage down and lifts it to 0, then gives 0
\* for immune, half of it rounded down for resistant, twice it for vulnerable and it
\* unchanged for normal (5 gives 2, 10, 0 and 5; 5.5 and -3 likewise rounded first);
\* the hit and critical distributions of calculateAttackDamage are the summed,
\* roll-mode-transformed distributions with the modifier applied to each outcome.
ModifierAppliedPerOutcome ==
    /\ applyDamageModifier(FromInt(5), "resistant") = 2
    /\ applyDamageModifier(FromInt(5), "vulnerable") = 10
    /\ applyDamageModifier(FromInt(5), "immune") = 0
    /\ applyDamageModifier(FromInt(5), "normal") = 5
    /\ \A modifier \in DamageModifiers :
           /\ applyDamageModifier(<<11, 2>>, modifier) = ModifiedDamage(5, modifier)
           /\ applyDamageModifier(<<-5, 2>>, modifier) = 0
    /\ Succeeded(damageResult) =>
           /\ ModifiedPerOutcome(RawDamageDistribution(damageRequest.damage, FALSE),
                                 damageResult.hitDamageDistribution,
                                 damageRequest.damage.modifier)
           /\ ModifiedPerOutcome(RawDamageDistribution(damageRequest.damage, TRUE),
                                 damageResult.criticalDamageDistribution,
                                 damageRequest.damage.modifier)

ModifierAppliedPerOutcomeWitness ==
    /\ Succeeded(damageResult)
    /\ damageRequest.damage.modifier = "resistant"
    /\ damageRequest.damage.diceRollMode = "advantage"
    /\ damageRequest.damage.expression = <<Dice(2, 2, 1), Const(-1)>>
    /\ damageRequest.damage.criticalDiceMultiplier = FromInt(2)
    /\ Outcomes(damageResult.criticalDamageDistribution) = {1, 2, 3}

-----------------------------------------------------------------------------
(* Argument validation of the engine.                                      *)

\* the whole numbers from `least` up that the callers hand in
WholeFrom(least, max) == {FromInt(n) : n \in least..max}

Rejected(result, message) == result = [error |-> message]

\* C11 as stated: a non-positive or non-integer sides, n or times is rejected with an
\* error.
NonPositiveRejected ==
    [][
        /\ \A sides \in NumberInputs(MaxSides) \ WholeFrom(1, MaxSides) :
              UniformDie(sides) => IsError(dist')
        /\ \A count \in NumberInputs(MaxCount) \ WholeFrom(1, MaxCount) :
              (MaxOfIndependent(count) \/ MinOfIndependent(count)) => IsError(dist')
        /\ \A times \in NumberInputs(MaxTimes) \ WholeFrom(1, MaxTimes) :
              RepeatConvolve(times) => IsError(dist')
    ]_vars

\* C11: a non-positive or non-integer sides passed to uniformDie or n passed to
\* maxOfIndependent / minOfIndependent, and a negative or non-integer times passed to
\* repeatConvolve, is rejected with an error naming the argument; no distribution is
\* returned for it.  times = 0 is accepted and gives constant(0).
InvalidArgumentsRejected ==
    [][
        /\ \A sides \in NumberInputs(MaxSides) \ WholeFrom(1, MaxSides) :
              UniformDie(sides) => Rejected(dist', "sides must be a positive integer")
        /\ \A count \in NumberInputs(MaxCount) \ WholeFrom(1, MaxCount) :
              (MaxOfIndependent(count) \/ MinOfIndependent(count))
                  => Rejected(dist', "count must be a positive integer")
        /\ \A times \in NumberInputs(MaxTimes) \ WholeFrom(0, MaxTimes) :
              RepeatConvolve(times)
                  => Rejected(dist', "times must be a non-negative integer")
        /\ RepeatConvolve(FromInt(0)) => dist' = constant(0)
    ]_vars

InvalidArgumentsRejectedWitness ==
    /\ opCount = 2
    /\ Rejected(dist, "count must be a positive integer")

-----------------------------------------------------------------------------
(* Preconditions of the domain model: callers that hand in invalid numbers. *)

\* callers handing in numbers that no dieSides, die count or multiplier may be (-1, 0,
\* 1/2, 5/2) beside valid ones, and repeats that are 0, -1, 1/2, Infinity or NaN
InitPreconditions ==
    LET faulty == {FromInt(-1), FromInt(0), <<1, 2>>, <<5, 2>>}
        rules == {[dieSides |-> sides, autoMissFaces |-> {1}, autoCritFaces |-> crit] :
                     sides \in faulty \cup {FromInt(1), FromInt(2), FromInt(3)},
                     crit \in {{}, {2}}}
        attacks == {[armorClass |-> ac, attackBonusExpression |-> e,
                     advantageState |-> "normal", rules |-> r, halflingLucky |-> l] :
                       ac \in {2, 3}, e \in {<<Const(1)>>, <<Const(0), Dice(0, 2, 1)>>},
                       r \in rules, l \in BOOLEAN}
        damages == {[expression |-> <<[Dice(1, 2, sign) EXCEPT !.count = count], Const(1)>>,
                     criticalDiceMultiplier |-> multiplier, modifier |-> "normal",
                     diceRollMode |-> UndefinedMode, damageRollCount |-> Undefined,
                     rerollLowThreshold |-> Undefined] :
                       count \in faulty \cup {FromInt(1), FromInt(2)}, sign \in {1, -1},
                       multiplier \in faulty \cup {FromInt(1), FromInt(2)}}
        requests == {[attack |-> [armorClass |-> 2, attackBonusExpression |-> <<Const(0)>>,
                                  advantageState |-> "normal",
                                  rules |-> [dieSides |-> sides, autoMissFaces |-> {1},
                                             autoCritFaces |-> {3}],
                                  halflingLucky |-> FALSE],
                      damage |-> damage] :
                        sides \in {FromInt(3), FromInt(1), <<5, 2>>}, damage \in damages}
        repeats == RepeatInputs \cup {<<-1, 1>>, <<1, 2>>, <<0, 0>>}
        plans == UNION {[1..n -> [request : PlanRequests, repeat : repeats]] : n \in 1..MaxSteps}
    IN  \/ /\ attack \in attacks
           /\ attackResult = None
           /\ previous = None
           /\ AlgebraIdle /\ AppIdle /\ CallIdle /\ SingleRollIdle /\ DamageIdle /\ PlanIdle
        \/ /\ damageRequest \in requests
           /\ damageResult = None
           /\ AlgebraIdle /\ AppIdle /\ CallIdle /\ AttackIdle /\ SingleRollIdle /\ PlanIdle
        \/ /\ plan \in [steps : plans]
           /\ planResult = None
           /\ AlgebraIdle /\ AppIdle /\ CallIdle /\ AttackIdle /\ SingleRollIdle /\ DamageIdle

NextPreconditions ==
    \/ CalculateAttackOutcomeProbabilities
    \/ CalculateAttackDamage
    \/ CalculateAttackDamagePlan

SpecPreconditions == InitPreconditions /\ [][NextPreconditions]_vars

\* not an integer greater than `least - 1`
NotWholeFrom(x, least) == ~(x[2] = 1 /\ x[1] >= least)

DiceCounts(expression) ==
    {expression[i].count : i \in {j \in 1..Len(expression) : expression[j].kind = "dice"}}

\* non-finite, or below 1
BadRepeat(repeat) ==
    /\ repeat # Undefined
    /\ repeat[2] = 0 \/ RLess(repeat, One)

\* the preconditions other than the one on the die count
OtherPreconditionsEnforced ==
    /\ (attackResult # None /\ NotWholeFrom(attack.rules.dieSides, 2))
           => Rejected(attackResult, "dieSides must be an integer greater than 1")
    /\ (damageResult # None /\ NotWholeFrom(damageRequest.attack.rules.dieSides, 2))
           => Rejected(damageResult, "dieSides must be an integer greater than 1")
    /\ (damageResult # None /\ NotWholeFrom(damageRequest.damage.criticalDiceMultiplier, 1))
           => IsError(damageResult)
    /\ (damageResult # None /\ NotWholeFrom(damageRequest.damage.criticalDiceMultiplier, 1))
           => Rejected(buildDamageDistribution(damageRequest.damage.expression,
                                               damageRequest.damage.criticalDiceMultiplier,
                                               damageRequest.damage.rerollLowThreshold),
                       "criticalDiceMultiplier must be a positive integer")
    /\ (planResult # None /\ \E i \in 1..Len(plan.steps) : BadRepeat(plan.steps[i].repeat))
           => /\ IsError(planResult)
              /\ DOMAIN planResult = {"error"}

-----------------------------------------------------------------------------
(* The engine on distributions built from entry lists.                     *)

FromEntries(entries) ==
    /\ CanBuild
    /\ dist' = fromEntries(entries)
    /\ Built

\* the held distribution as the right argument of convolve
ConvolveOnto(left) ==
    /\ CanApply
    /\ dist' = convolve(left, dist)
    /\ Applied

\* entry lists: one with an entry of probability 0, one with a gap, the empty one, an
\* unsorted one with a repeated outcome, one whose last entry has probability 0
NextEntries ==
    \/ \E entries \in {<<Entry(0, <<1, 2>>), Entry(1, Zero), Entry(2, <<1, 2>>)>>,
                       <<Entry(0, <<1, 2>>), Entry(3, <<1, 2>>)>>,
                       <<>>,
                       <<Entry(2, <<1, 2>>), Entry(1, <<1, 4>>), Entry(2, <<1, 4>>)>>,
                       <<Entry(1, One), Entry(2, Zero)>>} : FromEntries(entries)
    \/ \E left \in Operands : ConvolveOnto(left)
    \/ NextAlgebra

SpecEntries == InitAlgebra /\ [][NextEntries]_vars

\* C13: convolve(constant(0), d) has the outcomes of d, each with the probability it
\* has in d, for every distribution d: with entries of probability 0, with gaps
\* between its outcomes, or with no entries.
ConvolveZeroIsIdentity ==
    [][ConvolveOnto(constant(0)) =>
           /\ Outcomes(dist') = Outcomes(dist)
           /\ \A x \in Outcomes(dist) : ProbabilityAt(dist', x) = ProbabilityAt(dist, x)]_vars

\* the two distributions give every outcome the same probability, an outcome that is
\* no entry counting as probability 0
SameLaw(a, b) ==
    \A x \in Outcomes(a) \cup Outcomes(b) : ProbabilityAt(a, x) = ProbabilityAt(b, x)

NoNearZeroEntry(distribution) ==
    \A i \in 1..Len(distribution.entries) :
        ~AtMostEpsilon(distribution.entries[i].probability)

\* what C14 says of one call of repeatConvolve on a distribution d of total 1
RepeatIsSum(d, times, result) ==
    /\ expectation(result) = RMul(times, expectation(d))
    /\ times = FromInt(0) => result = constant(0)
    /\ times = FromInt(1) =>
           /\ SameLaw(result, d)
           /\ NoNearZeroEntry(d) => result.entries = d.entries
    /\ repeatConvolve(d, RAdd(times, One)) = convolve(result, d)

TupleProbability(d, t) ==
    LET product[i \in 0..Len(t)] ==
            IF i = 0 THEN One ELSE RMul(product[i - 1], ProbabilityAt(d, t[i]))
    IN  product[Len(t)]

\* the i-th of the n-tuples over the outcomes in `order`, i counting from 0
TupleAt(order, n, i) ==
    [j \in 1..n |-> order[((i \div (Len(order) ^ (j - 1))) % Len(order)) + 1]]

Highest(t) == CHOOSE x \in {t[i] : i \in 1..Len(t)} : \A i \in 1..Len(t) : t[i] <= x
Lowest(t) == CHOOSE x \in {t[i] : i \in 1..Len(t)} : \A i \in 1..Len(t) : t[i] >= x

\* the total probability of the n-tuples of draws from d whose highest (lowest, when
\* `highest` is FALSE) draw is x
TupleMass(d, n, x, highest) ==
    LET order == SortedSeq(Outcomes(d))
        extreme(t) == IF highest THEN Highest(t) ELSE Lowest(t)
    IN  SumOver({i \in 0..(Len(order) ^ n) - 1 : extreme(TupleAt(order, n, i)) = x},
                [i \in Int |-> TupleProbability(d, TupleAt(order, n, i))])

\* `result` is the distribution of the highest (lowest) of n independent draws from d
IsExtremeOfDraws(d, n, result, highest) ==
    /\ \A x \in Outcomes(d) \cup Outcomes(result) :
           ProbabilityAt(result, x) = TupleMass(d, n, x, highest)
    /\ n = 1 => result = d

\* C15: for an integer n >= 1 and a distribution d of total probability 1,
\* maxOfIndependent(d, n) gives every outcome x the total probability of the n-tuples
\* of draws from d whose maximum is x and minOfIndependent(d, n) that of the tuples
\* whose minimum is x; for n = 1 both return d itself.
OrderStatisticsExact ==
    [][\A count \in 1..MaxCount :
           /\ (MaxOfIndependent(FromInt(count)) /\ dist.totalProbability = One)
                  => IsExtremeOfDraws(dist, count, dist', TRUE)
           /\ (MinOfIndependent(FromInt(count)) /\ dist.totalProbability = One)
                  => IsExtremeOfDraws(dist, count, dist', FALSE)]_vars

OrderStatisticsExactWitness ==
    /\ opCount = 1
    /\ Succeeded(dist)
    /\ dist.entries = <<Entry(1, <<5, 9>>), Entry(2, <<1, 3>>), Entry(3, <<1, 9>>)>>

\* C16: no distribution handed back by the engine or by calculateAttackDamage has an
\* entry whose probability p has |p| <= 1e-15; in particular none has an entry of
\* probability 0.
NoNearZeroEntries ==
    /\ Succeeded(dist) => NoNearZeroEntry(dist)
    /\ Succeeded(damageResult) =>
           /\ NoNearZeroEntry(damageResult.hitDamageDistribution)
           /\ NoNearZeroEntry(damageResult.criticalDamageDistribution)
           /\ NoNearZeroEntry(damageResult.totalDamageDistribution)

-----------------------------------------------------------------------------
(* packages/domain: the save damage model.                                 *)

\* calculateSaveSuccessProbability rounding the net threshold down
calculateSaveSuccessProbabilityFloor(input) ==
    LET threshold == RSub(input.difficultyClass, input.saveBonus)
    IN  clamp01(Rat(21 - RFloor(threshold), 20))

calculateSaveSuccessProbability(input) ==
    LET threshold == RSub(input.difficultyClass, input.saveBonus)
        \* Math.ceil
        ceil == -((-threshold[1]) \div threshold[2])
    IN  clamp01(Rat(21 - ceil, 20))

calculateSaveExpectedDamage(input, failDamageMean, successDamageMean) ==
    [saveSuccessProbability |-> calculateSaveSuccessProbability(input),
     saveFailProbability |-> RSub(One, calculateSaveSuccessProbability(input)),
     expectedDamage |->
         RAdd(RMul(RSub(One, calculateSaveSuccessProbability(input)), failDamageMean),
              RMul(calculateSaveSuccessProbability(input), successDamageMean))]

\* difficulty classes and save bonuses: whole numbers and halves; damage means
InitSave ==
    /\ call \in [operation : {"calculateSaveExpectedDamage"},
                 input : [difficultyClass : {Rat(n, 2) : n \in 0..2 * MaxDifficultyClass},
                          saveBonus : {Rat(n, 2) : n \in -2 * MaxSaveBonus..2 * MaxSaveBonus}],
                 failDamageMean : {FromInt(20), <<7, 2>>},
                 successDamageMean : {FromInt(10), Zero}]
    /\ returned = None
    /\ AlgebraIdle /\ AppIdle /\ AttackIdle /\ SingleRollIdle /\ DamageIdle /\ PlanIdle

CalculateSaveExpectedDamage ==
    /\ call # None
    /\ call.operation = "calculateSaveExpectedDamage"
    /\ returned = None
    /\ returned' = calculateSaveExpectedDamage(call.input, call.failDamageMean,
                                                call.successDamageMean)
    /\ UNCHANGED <<appVars, call, algebraVars, attackVars, singleRollVars, damageVars, planVars>>

SpecSave == InitSave /\ [][CalculateSaveExpectedDamage]_vars

\* the least integer that is not below x
LeastIntegerFrom(x) ==
    CHOOSE n \in -(MaxDifficultyClass + MaxSaveBonus + 1)..(MaxDifficultyClass + MaxSaveBonus + 1) :
        RLeq(x, FromInt(n)) /\ RLess(FromInt(n - 1), x)

\* (21 - ceil(difficultyClass - saveBonus)) / 20 brought into [0, 1]
SaveSuccess(input) ==
    LET raw == Rat(21 - LeastIntegerFrom(RSub(input.difficultyClass, input.saveBonus)), 20)
    IN  IF RLess(raw, Zero) THEN Zero ELSE IF RLess(One, raw) THEN One ELSE raw

\* C17: calculateSaveSuccessProbability is (21 - ceil(difficultyClass - saveBonus)) / 20
\* brought into [0, 1] (DC 16, bonus 3: 0.4); calculateSaveExpectedDamage returns it,
\* saveFailProbability = 1 - it, both in [0, 1] and summing to 1, and expectedDamage =
\* saveFailProbability * failDamageMean + saveSuccessProbability * successDamageMean
\* (DC 16, bonus 3, means 20 and 10: 16).
SaveWeightedAverage ==
    /\ calculateSaveSuccessProbability([difficultyClass |-> FromInt(16), saveBonus |-> FromInt(3)])
           = <<2, 5>>
    /\ calculateSaveExpectedDamage([difficultyClass |-> FromInt(16), saveBonus |-> FromInt(3)],
                                   FromInt(20), FromInt(10)).expectedDamage = FromInt(16)
    /\ (call # None /\ returned # None) =>
           /\ calculateSaveSuccessProbability(call.input) = SaveSuccess(call.input)
           /\ returned.saveSuccessProbability = SaveSuccess(call.input)
           /\ returned.saveFailProbability = RSub(One, returned.saveSuccessProbability)
           /\ RAdd(returned.saveSuccessProbability, returned.saveFailProbability) = One
           /\ InUnit(returned.saveSuccessProbability)
           /\ InUnit(returned.saveFailProbability)
           /\ returned.expectedDamage =
                  RAdd(RMul(returned.saveFailProbability, call.failDamageMean),
                       RMul(returned.saveSuccessProbability, call.successDamageMean))

SaveWeightedAverageWitness ==
    /\ call # None
    /\ returned # None
    /\ call.input = [difficultyClass |-> <<31, 2>>, saveBonus |-> FromInt(3)]
    /\ call.failDamageMean = FromInt(20)
    /\ call.successDamageMean = FromInt(10)
    /\ returned.saveSuccessProbability = <<2, 5>>
    /\ returned.expectedDamage = FromInt(16)

-----------------------------------------------------------------------------
(* packages/domain: the closed-form means of the die mechanics.            *)

MaxMeanSides == 20

expectedSingleDieMean(sides) == RDiv(RAdd(sides, One), FromInt(2))

expectedGwfSingleDieMean(sides) ==
    RDiv(RSub(RMul(RAdd(sides, One), RAdd(sides, FromInt(2))), FromInt(6)),
         RMul(FromInt(2), sides))

expectedMaxOfTwoSingleDieMean(sides) ==
    RDiv(RMul(RAdd(sides, One), RSub(RMul(FromInt(4), sides), One)),
         RMul(FromInt(6), sides))

\* a caller of one of the three helpers with a die of 1..MaxMeanSides sides
InitMeans ==
    /\ call \in [operation : {"expectedSingleDieMean", "expectedGwfSingleDieMean",
                              "expectedMaxOfTwoSingleDieMean"},
                 sides : {FromInt(n) : n \in 1..MaxMeanSides}]
    /\ returned = None
    /\ AlgebraIdle /\ AppIdle /\ AttackIdle /\ SingleRollIdle /\ DamageIdle /\ PlanIdle

ExpectedSingleDieMean ==
    /\ call # None /\ call.operation = "expectedSingleDieMean"
    /\ returned = None
    /\ returned' = expectedSingleDieMean(call.sides)
    /\ UNCHANGED <<appVars, call, algebraVars, attackVars, singleRollVars, damageVars, planVars>>

ExpectedGwfSingleDieMean ==
    /\ call # None /\ call.operation = "expectedGwfSingleDieMean"
    /\ returned = None
    /\ returned' = expectedGwfSingleDieMean(call.sides)
    /\ UNCHANGED <<appVars, call, algebraVars, attackVars, singleRollVars, damageVars, planVars>>

ExpectedMaxOfTwoSingleDieMean ==
    /\ call # None /\ call.operation = "expectedMaxOfTwoSingleDieMean"
    /\ returned = None
    /\ returned' = expectedMaxOfTwoSingleDieMean(call.sides)
    /\ UNCHANGED <<appVars, call, algebraVars, attackVars, singleRollVars, damageVars, planVars>>

NextMeans ==
    \/ ExpectedSingleDieMean
    \/ ExpectedGwfSingleDieMean
    \/ ExpectedMaxOfTwoSingleDieMean

SpecMeans == InitMeans /\ [][NextMeans]_vars

\* the mean the engine computes for the mechanic a helper is the closed form of
EngineMean(operation, sides) ==
    CASE operation = "expectedSingleDieMean" -> expectation(uniformDie(sides))
      [] operation = "expectedGwfSingleDieMean" ->
             expectation(buildDamageDistribution(
                 <<[kind |-> "dice", count |-> One, sides |-> sides, sign |-> 1]>>,
                 One, FromInt(2)))
      [] operation = "expectedMaxOfTwoSingleDieMean" ->
             expectation(maxOfIndependent(uniformDie(sides), FromInt(2)))

\* C22: the closed-form mean helpers agree with the engine for every positive integer
\* sides: expectedSingleDieMean with the mean of uniformDie, expectedGwfSingleDieMean
\* with the mean of the reroll-low distribution with threshold 2 of '1d<sides>', and
\* expectedMaxOfTwoSingleDieMean with the mean of the maximum of two uniform dice.
ClosedFormMeansAgree ==
    (call # None /\ returned # None) => returned = EngineMean(call.operation, call.sides)

-----------------------------------------------------------------------------
(* packages/rulesets: effects and attack templates.                        *)

bg3AttackRules == [dieSides |-> FromInt(20), autoMissFaces |-> {1}, autoCritFaces |-> {20}]

\* { ...current, ...patch }: a patch is a record of some of the fields, an absent patch
\* is Undefined
mergeDamage(current, patch) ==
    IF DOMAIN patch = {} THEN current
    ELSE [f \in DOMAIN current |-> IF f \in DOMAIN patch THEN patch[f] ELSE current[f]]

\* mergeAttack dropping the patch
mergeAttackKeepCurrent(current, patch) == current

mergeAttack(current, patch) ==
    IF DOMAIN patch = {} THEN current
    ELSE [f \in DOMAIN current |->
             IF f = "rules"
             THEN IF "rules" \in DOMAIN patch /\ DOMAIN patch.rules # {}
                  THEN patch.rules ELSE current.rules
             ELSE IF f \in DOMAIN patch THEN patch[f] ELSE current[f]]

\* normalizeCriticalThreshold keeping every threshold from 10 on
normalizeCriticalThresholdFromTen(threshold) ==
    LET least == IF RFloor(threshold) < 20 THEN RFloor(threshold) ELSE 20
    IN  IF least > 10 THEN least ELSE 10

normalizeCriticalThreshold(threshold) ==
    LET least == IF RFloor(threshold) < 20 THEN RFloor(threshold) ELSE 20
    IN  IF least > 17 THEN least ELSE 17

\* effect.apply(context) of the effects the factories make: an effect is
\* [id, kind, value] and the mutation [attack, damage] holds a patch or Undefined
ApplyEffect(effect, context) ==
    CASE effect.kind = "attackBonus" ->
             [attack |-> [attackBonusExpression |->
                              \* appendConstant: an expression is its list of components
                              Append(context.attack.attackBonusExpression,
                                     Const(effect.value))],
              damage |-> Undefined]
      [] effect.kind = "criticalDiceMultiplier" ->
             [attack |-> Undefined, damage |-> [criticalDiceMultiplier |-> effect.value]]
      [] effect.kind = "damageModifier" ->
             [attack |-> Undefined, damage |-> [modifier |-> effect.value]]
      [] effect.kind = "damageDiceRollMode" ->
             [attack |-> Undefined, damage |-> [diceRollMode |-> effect.value]]
      [] effect.kind = "criticalThreshold" ->
             [attack |-> [rules |-> [dieSides |-> context.attack.rules.dieSides,
                                     autoMissFaces |-> context.attack.rules.autoMissFaces,
                                     autoCritFaces |->
                                         normalizeCriticalThreshold(effect.value)..20]],
              damage |-> Undefined]
      [] effect.kind = "halflingLucky" ->
             [attack |-> [halflingLucky |-> effect.value], damage |-> Undefined]
      [] effect.kind = "damageRollCount" ->
             [attack |-> Undefined, damage |-> [damageRollCount |-> effect.value]]

\* applyEffects handing every effect the base context instead of the current one
applyEffectsFromBase(base, effects) ==
    LET current[i \in 0..Len(effects)] ==
            IF i = 0 THEN base
            ELSE [attack |-> mergeAttack(current[i - 1].attack,
                                         ApplyEffect(effects[i], base).attack),
                  damage |-> mergeDamage(current[i - 1].damage,
                                         ApplyEffect(effects[i], base).damage)]
    IN  current[Len(effects)]

\* the loop over the effects: base is `current`
RECURSIVE applyEffects(_, _)
applyEffects(base, effects) ==
    IF Len(effects) = 0 THEN base
    ELSE applyEffects([attack |-> mergeAttack(base.attack,
                                              ApplyEffect(effects[1], base).attack),
                       damage |-> mergeDamage(base.damage,
                                              ApplyEffect(effects[1], base).damage)],
                      Tail(effects))

normalizeTemplateStep(base, step) ==
    applyEffects([attack |-> mergeAttack(base.attack, step.attack),
                  damage |-> mergeDamage(base.damage, step.damage)],
                 step.effects)

\* resolveBg3AttackTemplate once the contexts of the steps are resolved: the plan steps
\* with repeat = step.repeat === undefined ? 1 : Math.max(1, Math.floor(step.repeat)),
\* the plan, and one step result per context from the plan step of the same index
ResolveContexts(template, contexts) ==
    OrThrow(calculateAttackDamagePlan(MakeSeq(Len(contexts), [i \in Nat |->
                [request |-> contexts[i],
                 repeat |->
                     IF template.steps[i].repeat = Undefined THEN One
                     ELSE IF ~IsFinite(template.steps[i].repeat)
                     THEN (IF template.steps[i].repeat[1] < 0 THEN One
                           ELSE template.steps[i].repeat)
                     ELSE FromInt(IF RFloor(template.steps[i].repeat) > 1
                                  THEN RFloor(template.steps[i].repeat) ELSE 1)]])),
            [totalResult \in Any |->
                [template |-> template,
                 steps |-> MakeSeq(Len(contexts), [i \in Nat |->
                              [step |-> template.steps[i],
                               context |-> contexts[i],
                               request |-> contexts[i],
                               appliedEffects |-> template.steps[i].effects,
                               repeat |-> totalResult.steps[i].repeat,
                               result |-> totalResult.steps[i].result,
                               expectedDamageTotal |->
                                   totalResult.steps[i].expectedDamageTotal]]),
                 totalResult |-> totalResult]])

resolveBg3AttackTemplate(base, template) ==
    ResolveContexts(template, MakeSeq(Len(template.steps), [i \in Nat |->
                                  normalizeTemplateStep(base, template.steps[i])]))

\* options holds every field, Undefined when it is not given; an effect list that is
\* not given is the empty list (options.offHandEffects ?? [])
makeDualWieldTemplate(options) ==
    [id |-> "dual-wield",
     name |-> "Dual Wield",
     steps |-> <<[id |-> "main-hand", repeat |-> options.mainHandRepeat,
                  attack |-> Undefined, damage |-> Undefined,
                  effects |-> options.mainHandEffects]>>
               \o IF Len(options.offHandEffects) > 0 \/ options.offHandRepeat # Undefined
                  THEN <<[id |-> "off-hand", repeat |-> options.offHandRepeat,
                          attack |-> options.offHandAttackPatch,
                          damage |-> options.offHandDamagePatch,
                          effects |-> options.offHandEffects]>>
                  ELSE <<>>]

\* the caller of makeDualWieldTemplate and resolveBg3AttackTemplate: every option given
\* or not, on a base context of 1d2+1 against armor class 2 or 3 on a d3
InitTemplate ==
    LET bases == {[attack |-> [armorClass |-> ac, attackBonusExpression |-> <<Const(0)>>,
                               advantageState |-> "normal",
                               rules |-> [dieSides |-> FromInt(3), autoMissFaces |-> {1},
                                          autoCritFaces |-> {3}],
                               halflingLucky |-> FALSE],
                   damage |-> [expression |-> <<Dice(1, 2, 1), Const(1)>>,
                               criticalDiceMultiplier |-> FromInt(2), modifier |-> "normal",
                               diceRollMode |-> UndefinedMode, damageRollCount |-> Undefined,
                               rerollLowThreshold |-> Undefined]] : ac \in 2..3}
        effectLists == {<<>>,
                        <<[id |-> "roll", kind |-> "damageRollCount", value |-> One]>>,
                        <<[id |-> "bonus", kind |-> "attackBonus", value |-> 1],
                          [id |-> "resist", kind |-> "damageModifier", value |-> "resistant"]>>}
        options == [mainHandEffects : effectLists,
                    offHandEffects : effectLists,
                    offHandAttackPatch : {Undefined, [attackBonusExpression |-> <<Const(1)>>]},
                    offHandDamagePatch : {Undefined, [expression |-> <<Const(2)>>]},
                    mainHandRepeat : {Undefined, FromInt(2)},
                    offHandRepeat : {Undefined, FromInt(2), <<1, 2>>}]
    IN  /\ call \in [operation : {"resolveBg3AttackTemplate"}, base : bases, options : options]
        /\ returned = None
        /\ AlgebraIdle /\ AppIdle /\ AttackIdle /\ SingleRollIdle /\ DamageIdle /\ PlanIdle

\* resolveBg3AttackTemplate(base, makeDualWieldTemplate(options))
ResolveDualWieldTemplate ==
    /\ call # None
    /\ call.operation = "resolveBg3AttackTemplate"
    /\ returned = None
    /\ returned' = resolveBg3AttackTemplate(call.base, makeDualWieldTemplate(call.options))
    /\ UNCHANGED <<appVars, call, algebraVars, attackVars, singleRollVars, damageVars, planVars>>

SpecTemplate == InitTemplate /\ [][ResolveDualWieldTemplate]_vars

\* an off-hand is configured through one of the four off-hand options
OffHandConfigured(options) ==
    \/ Len(options.offHandEffects) > 0
    \/ options.offHandRepeat # Undefined
    \/ DOMAIN options.offHandAttackPatch # {}
    \/ DOMAIN options.offHandDamagePatch # {}

\* C20: the template of makeDualWieldTemplate starts with the step 'main-hand'; a second
\* step 'off-hand' carrying offHandAttackPatch and offHandDamagePatch is present when an
\* off-hand is configured through any of offHandEffects, offHandRepeat,
\* offHandAttackPatch or offHandDamagePatch and absent otherwise; and
\* resolveBg3AttackTemplate returns one step result per template step in template order.
OffHandStepWheneverConfigured ==
    (call # None /\ returned # None) =>
        LET template == returned.template
        IN  /\ template = makeDualWieldTemplate(call.options)
            /\ template.steps[1].id = "main-hand"
            /\ Len(template.steps) = IF OffHandConfigured(call.options) THEN 2 ELSE 1
            /\ Len(template.steps) = 2 =>
                   /\ template.steps[2].id = "off-hand"
                   /\ template.steps[2].attack = call.options.offHandAttackPatch
                   /\ template.steps[2].damage = call.options.offHandDamagePatch
            /\ Len(returned.steps) = Len(template.steps)
            /\ \A i \in 1..Len(template.steps) : returned.steps[i].step = template.steps[i]

-----------------------------------------------------------------------------
(* packages/rulesets: applyEffects called on its own.                      *)

MaxEffects == 3

\* the effects the factories make, as the tests of the package pass them, by id
EffectIds ==
    {"weapon-plus-one", "bless", "orcish-fury", "target-resistant", "target-vulnerable",
     "damage-adv", "crit-19", "crit-18", "lucky", "roll-three"}

MakeEffect(id) ==
    CASE id = "weapon-plus-one" -> [id |-> id, kind |-> "attackBonus", value |-> 1]
      [] id = "bless" -> [id |-> id, kind |-> "attackBonus", value |-> 2]
      [] id = "orcish-fury" ->
             [id |-> id, kind |-> "criticalDiceMultiplier", value |-> FromInt(3)]
      [] id = "target-resistant" ->
             [id |-> id, kind |-> "damageModifier", value |-> "resistant"]
      [] id = "target-vulnerable" ->
             [id |-> id, kind |-> "damageModifier", value |-> "vulnerable"]
      [] id = "damage-adv" ->
             [id |-> id, kind |-> "damageDiceRollMode", value |-> "advantage"]
      [] id = "crit-19" -> [id |-> id, kind |-> "criticalThreshold", value |-> FromInt(19)]
      [] id = "crit-18" -> [id |-> id, kind |-> "criticalThreshold", value |-> <<37, 2>>]
      [] id = "lucky" -> [id |-> id, kind |-> "halflingLucky", value |-> TRUE]
      [] id = "roll-three" -> [id |-> id, kind |-> "damageRollCount", value |-> FromInt(3)]

\* makeBaseContext of the tests, and a second base with other values in the fields the
\* effects set
\* the list of effects is held as the list of their ids
InitEffects ==
    LET bases == {[attack |-> [armorClass |-> 15, attackBonusExpression |-> <<Const(5)>>,
                               advantageState |-> "normal", rules |-> bg3AttackRules,
                               halflingLucky |-> FALSE],
                   damage |-> [expression |-> <<Dice(1, 8, 1), Const(3)>>,
                               criticalDiceMultiplier |-> FromInt(2), modifier |-> "normal",
                               diceRollMode |-> UndefinedMode, damageRollCount |-> Undefined,
                               rerollLowThreshold |-> Undefined]],
                  [attack |-> [armorClass |-> 12,
                               attackBonusExpression |-> <<Const(3), Dice(1, 4, 1)>>,
                               advantageState |-> "advantage",
                               rules |-> [dieSides |-> FromInt(20), autoMissFaces |-> {1, 2},
                                          autoCritFaces |-> {19, 20}],
                               halflingLucky |-> TRUE],
                   damage |-> [expression |-> <<Dice(2, 6, 1)>>,
                               criticalDiceMultiplier |-> FromInt(2),
                               modifier |-> "vulnerable",
                               diceRollMode |-> "disadvantage",
                               damageRollCount |-> FromInt(2),
                               rerollLowThreshold |-> FromInt(2)]]}
        effectLists == UNION {[1..n -> EffectIds] : n \in 0..MaxEffects}
    IN  /\ call \in [operation : {"applyEffects"}, base : bases, effects : effectLists]
        /\ returned = None
        /\ AlgebraIdle /\ AppIdle /\ AttackIdle /\ SingleRollIdle /\ DamageIdle /\ PlanIdle

ApplyEffects ==
    /\ call # None
    /\ call.operation = "applyEffects"
    /\ returned = None
    /\ returned' = applyEffects(call.base, MakeSeq(Len(call.effects), [i \in Nat |->
                                                   MakeEffect(call.effects[i])]))
    /\ UNCHANGED <<appVars, call, algebraVars, attackVars, singleRollVars, damageVars, planVars>>

SpecEffects == InitEffects /\ [][ApplyEffects]_vars

\* the values of the effects of one kind, in list order
ValuesOfKind(effects, kind) ==
    LET chosen == SelectSeq(effects, LAMBDA effect : effect.kind = kind)
    IN  [i \in 1..Len(chosen) |-> chosen[i].value]

\* the value the last effect of a kind sets, the base value when there is none
LastOr(values, baseValue) == IF Len(values) = 0 THEN baseValue ELSE values[Len(values)]

\* the sum of the constant components of an expression
ConstantsOf(expression) ==
    LET constants == SelectSeq(expression, LAMBDA component : component.kind = "constant")
        sum[i \in 0..Len(constants)] ==
            IF i = 0 THEN 0 ELSE sum[i - 1] + constants[i].value
    IN  sum[Len(constants)]

\* C21: applyEffects applies the effects in list order, each effect seeing the context
\* produced by all earlier effects: for effects that set the same field the last one
\* wins, attack-bonus effects accumulate (each appends its constant to the expression
\* built so far), fields no effect touches keep the base value (rules are kept when a
\* patch carries no rules), and the base context is not modified.
EffectsAppliedInOrder ==
    (call # None /\ call.operation = "applyEffects" /\ returned # None) =>
        LET base == call.base
            effects == MakeSeq(Len(call.effects), [i \in Nat |->
                                                       MakeEffect(call.effects[i])])
            bonuses == ValuesOfKind(effects, "attackBonus")
            thresholds == ValuesOfKind(effects, "criticalThreshold")
        IN  /\ returned.attack.attackBonusExpression =
                   base.attack.attackBonusExpression
                   \o [i \in 1..Len(bonuses) |-> Const(bonuses[i])]
            /\ ConstantsOf(returned.attack.attackBonusExpression) =
                   ConstantsOf(base.attack.attackBonusExpression)
                   + ConstantsOf([i \in 1..Len(bonuses) |-> Const(bonuses[i])])
            /\ returned.attack.halflingLucky =
                   LastOr(ValuesOfKind(effects, "halflingLucky"), base.attack.halflingLucky)
            /\ returned.damage.criticalDiceMultiplier =
                   LastOr(ValuesOfKind(effects, "criticalDiceMultiplier"),
                          base.damage.criticalDiceMultiplier)
            /\ returned.damage.modifier =
                   LastOr(ValuesOfKind(effects, "damageModifier"), base.damage.modifier)
            /\ returned.damage.diceRollMode =
                   LastOr(ValuesOfKind(effects, "damageDiceRollMode"),
                          base.damage.diceRollMode)
            /\ returned.damage.damageRollCount =
                   LastOr(ValuesOfKind(effects, "damageRollCount"),
                          base.damage.damageRollCount)
            /\ returned.attack.rules.dieSides = base.attack.rules.dieSides
            /\ returned.attack.rules.autoMissFaces = base.attack.rules.autoMissFaces
            /\ returned.attack.rules.autoCritFaces =
                   IF Len(thresholds) = 0 THEN base.attack.rules.autoCritFaces
                   ELSE normalizeCriticalThreshold(thresholds[Len(thresholds)])..20
            /\ returned.attack.armorClass = base.attack.armorClass
            /\ returned.attack.advantageState = base.attack.advantageState
            /\ returned.damage.expression = base.damage.expression
            /\ returned.damage.rerollLowThreshold = base.damage.rerollLowThreshold
            /\ \A n \in 0..Len(effects) :
                   returned = applyEffects(applyEffects(base, SubSeq(effects, 1, n)),
                                           SubSeq(effects, n + 1, Len(effects)))

\* weapon +1, orcish fury and a resistant target on the base of +5: the constants of the
\* attack bonus sum to 6
EffectsAppliedInOrderWitness ==
    /\ call # None /\ call.operation = "applyEffects" /\ returned # None
    /\ call.base.attack.attackBonusExpression = <<Const(5)>>
    /\ call.effects = <<"weapon-plus-one", "orcish-fury", "target-resistant">>
    /\ ConstantsOf(returned.attack.attackBonusExpression) = 6
    /\ returned.damage.criticalDiceMultiplier = FromInt(3)
    /\ returned.damage.modifier = "resistant"

-----------------------------------------------------------------------------
(* packages/dice-parser: texts are strings, indices count from 0 as in the *)
(* source. Messages are written in ASCII.                                   *)

\* input[index], the empty string when there is no character
CharAt(input, index) ==
    IF index >= 0 /\ index < Len(input) THEN SubSeq(input, index + 1, index + 1) ELSE ""

RECURSIVE skipWhitespace(_, _)
skipWhitespace(input, startIndex) ==
    IF startIndex < Len(input) /\ CharAt(input, startIndex) = " "
    THEN skipWhitespace(input, startIndex + 1)
    ELSE startIndex

\* the token [value, nextIndex], or None for null
readUnsignedInteger(input, startIndex) ==
    LET isDigit(char) == \E n \in 0..9 : ToString(n) = char
        digit(char) == CHOOSE n \in 0..9 : ToString(n) = char
        endIndex[i \in 0..Len(input)] ==
            IF isDigit(CharAt(input, i)) THEN endIndex[i + 1] ELSE i
        \* Number.parseInt(input.slice(startIndex, i), 10)
        parsed[i \in 0..Len(input)] ==
            IF i <= startIndex THEN 0
            ELSE 10 * parsed[i - 1] + digit(CharAt(input, i - 1))
    IN  IF ~isDigit(CharAt(input, startIndex)) THEN None
        ELSE [value |-> parsed[endIndex[startIndex]], nextIndex |-> endIndex[startIndex]]

\* one iteration of the loop of parseDiceExpression from the top, index being the
\* position after the first skipWhitespace and operatorSign the pendingSign the last
\* iteration left; the value returned holds the component list
RECURSIVE ParseTerms(_, _, _, _, _)
ParseTerms(source, index, isFirstTerm, operatorSign, components) ==
    LET \* throw new DiceParseError(makeIssue(message, at))
        ParseError(message, at) == Throw(message \o " (index " \o ToString(at) \o ")")
        signed == isFirstTerm /\ CharAt(source, index) \in {"+", "-"}
        pendingSign == IF signed THEN (IF CharAt(source, index) = "-" THEN -1 ELSE 1)
                       ELSE operatorSign
        startOfTerm == IF signed THEN skipWhitespace(source, index + 1) ELSE index
        countToken == readUnsignedInteger(source, startOfTerm)
        afterCount == IF countToken = None THEN startOfTerm ELSE countToken.nextIndex
        isDice == CharAt(source, afterCount) \in {"d", "D"}
        sidesToken == readUnsignedInteger(source, afterCount + 1)
        diceCount == IF countToken = None THEN 1 ELSE countToken.value
        afterTerm == skipWhitespace(source, IF isDice THEN sidesToken.nextIndex
                                            ELSE afterCount)
        pushed == Append(components,
                         IF isDice THEN Dice(diceCount, sidesToken.value, pendingSign)
                         ELSE Const(pendingSign * countToken.value))
    IN  IF index >= Len(source)
        THEN IF isFirstTerm THEN ParseError("expression must not be empty", 0)
             ELSE ParseError("expression must not end with an operator", Len(source) - 1)
        ELSE IF isDice /\ sidesToken = None
        THEN ParseError("missing dice sides", afterCount + 1)
        ELSE IF isDice /\ diceCount <= 0
        THEN ParseError("dice count must be greater than 0", startOfTerm)
        ELSE IF isDice /\ sidesToken.value <= 0
        THEN ParseError("dice sides must be greater than 0", afterCount + 1)
        ELSE IF ~isDice /\ countToken = None
        THEN ParseError("expected a dice term or a number", startOfTerm)
        ELSE IF afterTerm >= Len(source) THEN [components |-> pushed]
        ELSE IF CharAt(source, afterTerm) \notin {"+", "-", ","}
        THEN ParseError("illegal character '" \o CharAt(source, afterTerm) \o "'", afterTerm)
        ELSE IF skipWhitespace(source, afterTerm + 1) >= Len(source)
        THEN ParseError("expression must not end with an operator", Len(source) - 1)
        ELSE ParseTerms(source, skipWhitespace(source, afterTerm + 1), FALSE,
                        IF CharAt(source, afterTerm) = "-" THEN -1 ELSE 1, pushed)

\* the value when ok, the error otherwise
tryParseDiceExpression(input) == ParseTerms(input, skipWhitespace(input, 0), TRUE, 1, <<>>)

-----------------------------------------------------------------------------
(* apps/desktop-tauri: the compute worker.                                 *)

\* Number(text) for texts of digits, signs, points and blanks: blank text is 0, a
\* signed decimal literal is its value, any other text is NaN
NumberOf(text) ==
    LET start == skipWhitespace(text, 0)
        stop[i \in 0..Len(text)] ==
            IF i > start /\ CharAt(text, i - 1) = " " THEN stop[i - 1] ELSE i
        from == IF CharAt(text, start) \in {"+", "-"} THEN start + 1 ELSE start
        whole == readUnsignedInteger(text, from)
        afterWhole == IF whole = None THEN from ELSE whole.nextIndex
        hasPoint == CharAt(text, afterWhole) = "."
        fraction == IF hasPoint THEN readUnsignedInteger(text, afterWhole + 1) ELSE None
        afterAll == IF ~hasPoint THEN afterWhole
                    ELSE IF fraction = None THEN afterWhole + 1 ELSE fraction.nextIndex
        magnitude == RAdd(IF whole = None THEN Zero ELSE FromInt(whole.value),
                          IF fraction = None THEN Zero
                          ELSE Rat(fraction.value, 10 ^ (fraction.nextIndex - afterWhole - 1)))
    IN  IF start >= Len(text) THEN Zero
        ELSE IF afterAll # stop[Len(text)] \/ (whole = None /\ fraction = None) THEN <<0, 0>>
        ELSE IF CharAt(text, start) = "-" THEN RNeg(magnitude) ELSE magnitude

\* value.toFixed(fractionDigits) of a finite number: the nearest multiple of
\* 10^-fractionDigits, the larger one on a tie
toFixed(value, fractionDigits) ==
    LET magnitude == IF value[1] < 0 THEN RNeg(value) ELSE value
        unit == 10 ^ fractionDigits
        n == RFloor(RAdd(RMul(magnitude, FromInt(unit)), <<1, 2>>))
    IN  (IF value[1] < 0 /\ n > 0 THEN "-" ELSE "")
        \o ToString(n \div unit) \o "."
        \o SubSeq(ToString(unit + (n % unit)), 2, fractionDigits + 1)

summarizeProbabilities(probabilities) ==
    "miss " \o toFixed(RMul(probabilities.miss, FromInt(100)), 2)
    \o "% | hit " \o toFixed(RMul(probabilities.hit, FromInt(100)), 2)
    \o "% | crit " \o toFixed(RMul(probabilities.critical, FromInt(100)), 2) \o "%"

asFailure(requestId, errorMessage) ==
    [ok |-> FALSE, requestId |-> requestId, errorMessage |-> errorMessage]

buildAttackBonusExpressionText(fixedText, die) ==
    IF die = "none" THEN fixedText ELSE fixedText \o "+" \o die

\* computeOneEntry from the shared effects on: the arguments are the values of the
\* parsed texts, offHandDamage and
\* offHandAttackBonus are None (null) when the off-hand text is blank. An armor class
\* that is not whole is rounded up, which the comparison with whole sums cannot tell
ResolveEntry(entry, mainHandDamage, mainHandAttackBonus, offHandDamage, offHandAttackBonus) ==
    [parsed \in Any |->
    LET parsedRollCount == parsed.rollCount
        parsedCriticalThreshold == parsed.criticalThreshold
        effectiveRollCount ==
            IF entry.damageDiceMode = "normal" THEN One
            ELSE FromInt(IF RFloor(parsedRollCount) > 5 THEN 5
                         ELSE IF RFloor(parsedRollCount) < 2 THEN 2
                         ELSE RFloor(parsedRollCount))
        safeCriticalThreshold ==
            FromInt(IF RFloor(parsedCriticalThreshold) > 20 THEN 20
                    ELSE IF RFloor(parsedCriticalThreshold) < 10 THEN 10
                    ELSE RFloor(parsedCriticalThreshold))
        sharedEffects ==
            <<[id |-> "ui-extra-" \o entry.id, kind |-> "attackBonus", value |-> 0],
              [id |-> "ui-damage-mode-" \o entry.id, kind |-> "damageDiceRollMode",
               value |-> entry.damageDiceMode],
              [id |-> "ui-roll-count-" \o entry.id, kind |-> "damageRollCount",
               value |-> effectiveRollCount],
              [id |-> "ui-critical-threshold-" \o entry.id, kind |-> "criticalThreshold",
               value |-> safeCriticalThreshold],
              [id |-> "ui-halfling-lucky-" \o entry.id, kind |-> "halflingLucky",
               value |-> entry.halflingLucky]>>
        baseContext ==
            [attack |-> [attackBonusExpression |-> mainHandAttackBonus.components,
                         armorClass |-> -RFloor(RNeg(parsed.armorClass)),
                         advantageState |-> entry.advantageState,
                         rules |-> bg3AttackRules,
                         halflingLucky |-> entry.halflingLucky],
             damage |-> [expression |-> mainHandDamage.components,
                         criticalDiceMultiplier |-> FromInt(2),
                         modifier |-> entry.modifier,
                         diceRollMode |-> entry.damageDiceMode,
                         damageRollCount |-> effectiveRollCount,
                         rerollLowThreshold |-> Undefined]]
        template ==
            IF offHandDamage # None
            THEN makeDualWieldTemplate(
                     [mainHandEffects |-> sharedEffects,
                      offHandEffects |-> sharedEffects,
                      offHandAttackPatch |->
                          [attackBonusExpression |-> offHandAttackBonus.components],
                      offHandDamagePatch |-> [expression |-> offHandDamage.components],
                      mainHandRepeat |-> Undefined,
                      offHandRepeat |-> Undefined])
            ELSE makeDualWieldTemplate(
                     [mainHandEffects |-> sharedEffects,
                      offHandEffects |-> <<>>,
                      offHandAttackPatch |-> Undefined,
                      offHandDamagePatch |-> Undefined,
                      mainHandRepeat |-> Undefined,
                      offHandRepeat |-> Undefined])
    IN  OrThrow(resolveBg3AttackTemplate(baseContext, template), [resolved \in Any |->
            LET found(id) == {i \in 1..Len(resolved.steps) : resolved.steps[i].step.id = id}
                \* resolved.steps.find(...)?.result[field] ?? 0
                value(id, field) ==
                    IF found(id) = {} THEN Zero
                    ELSE resolved.steps[CHOOSE i \in found(id) :
                                            \A j \in found(id) : i <= j].result[field]
            IN  [expectedPerEntryValue |-> resolved.totalResult.expectedDamagePerPlan,
                 entry |->
                     [id |-> entry.id,
                      hasOffHandStep |-> offHandDamage # None,
                      expectedMainHand |-> toFixed(value("main-hand", "expectedDamagePerAttack"), 4),
                      expectedOffHand |-> toFixed(value("off-hand", "expectedDamagePerAttack"), 4),
                      expectedPerEntry |->
                          toFixed(resolved.totalResult.expectedDamagePerPlan, 4),
                      expectedOnHitMainHand |->
                          toFixed(value("main-hand", "expectedDamageOnHit"), 4),
                      expectedOnCritMainHand |->
                          toFixed(value("main-hand", "expectedDamageOnCritical"), 4),
                      expectedOnHitOffHand |->
                          toFixed(value("off-hand", "expectedDamageOnHit"), 4),
                      expectedOnCritOffHand |->
                          toFixed(value("off-hand", "expectedDamageOnCritical"), 4),
                      mainHandProbabilitySummary |->
                          IF found("main-hand") = {}
                          THEN summarizeProbabilities([miss |-> One, hit |-> Zero,
                                                       critical |-> Zero])
                          ELSE summarizeProbabilities(value("main-hand", "probabilities")),
                      offHandProbabilitySummary |->
                          IF found("off-hand") = {} THEN "-"
                          ELSE summarizeProbabilities(value("off-hand", "probabilities")),
                      templateSummary |->
                          IF offHandDamage # None THEN "main-hand + off-hand"
                          ELSE "off-hand left blank, fell back to main-hand only"]]])
    ][[rollCount |-> NumberOf(entry.damageRollCountText),
       criticalThreshold |-> NumberOf(entry.criticalThresholdText),
       armorClass |-> NumberOf(entry.armorClassText)]]

\* the label of entry index (from 0) is "entry k", k = index + 1
computeOneEntry(entry, requestId, index) ==
    [parsed \in Any |->
    LET label == "entry " \o ToString(index + 1) \o " "
        parsedMainHandDamage == parsed.mainHandDamage
        parsedMainHandAttackBonusExpression == parsed.mainHandAttackBonus
        parsedRollCount == parsed.rollCount
        parsedCriticalThreshold == parsed.criticalThreshold
        offHandText == entry.offHandDamageExprText
        offHandBlank == skipWhitespace(offHandText, 0) >= Len(offHandText)
        parsedOffHandDamage == parsed.offHandDamage
        parsedOffHandAttackBonusExpression == parsed.offHandAttackBonus
    IN  IF IsError(parsedMainHandDamage)
        THEN asFailure(requestId, label \o "main-hand damage expression error: "
                                  \o parsedMainHandDamage.error)
        ELSE IF IsError(parsedMainHandAttackBonusExpression)
        THEN asFailure(requestId, label \o "main-hand attack bonus expression error: "
                                  \o parsedMainHandAttackBonusExpression.error)
        ELSE IF ~IsFinite(parsed.armorClass)
        THEN asFailure(requestId, label \o "target AC must be a number")
        ELSE IF /\ entry.damageDiceMode # "normal"
                /\ \/ ~IsFinite(parsedRollCount)
                   \/ RLess(parsedRollCount, FromInt(2))
                   \/ RLess(FromInt(5), parsedRollCount)
        THEN asFailure(requestId, label \o "roll count must be between 2 and 5")
        ELSE IF \/ ~IsFinite(parsedCriticalThreshold)
                \/ RLess(parsedCriticalThreshold, FromInt(10))
                \/ RLess(FromInt(20), parsedCriticalThreshold)
        THEN asFailure(requestId, label \o "critical threshold must be between 10 and 20")
        ELSE IF ~offHandBlank /\ IsError(parsedOffHandDamage)
        THEN asFailure(requestId, label \o "off-hand damage expression error: "
                                  \o parsedOffHandDamage.error)
        ELSE IF ~offHandBlank /\ IsError(parsedOffHandAttackBonusExpression)
        THEN asFailure(requestId, label \o "off-hand attack bonus expression error: "
                                  \o parsedOffHandAttackBonusExpression.error)
        ELSE ResolveEntry(entry, parsedMainHandDamage, parsedMainHandAttackBonusExpression,
                          IF offHandBlank THEN None ELSE parsedOffHandDamage,
                          IF offHandBlank THEN None ELSE parsedOffHandAttackBonusExpression)
    ][[mainHandDamage |-> tryParseDiceExpression(entry.mainHandDamageExprText),
       mainHandAttackBonus |->
           tryParseDiceExpression(buildAttackBonusExpressionText(
               entry.mainHandAttackBonusFixedText, entry.mainHandAttackBonusDie)),
       armorClass |-> NumberOf(entry.armorClassText),
       rollCount |-> NumberOf(entry.damageRollCountText),
       criticalThreshold |-> NumberOf(entry.criticalThresholdText),
       offHandDamage |-> tryParseDiceExpression(entry.offHandDamageExprText),
       offHandAttackBonus |->
           tryParseDiceExpression(buildAttackBonusExpressionText(
               entry.offHandAttackBonusFixedText, entry.offHandAttackBonusDie))]]

\* PlanOutput reporting the last entry that fails
PlanOutputLastFailure(input, computed) ==
    LET stopped == {i \in 1..Len(computed) :
                        IsError(computed[i]) \/ "ok" \in DOMAIN computed[i]}
        expectedPerPlanValue ==
            RSum(MakeSeq(Len(computed), [i \in Nat |-> computed[i].expectedPerEntryValue]))
        safePlanCount == IF RFloor(NumberOf(input.planCountText)) > 1
                         THEN RFloor(NumberOf(input.planCountText)) ELSE 1
    IN  IF stopped # {} THEN computed[CHOOSE i \in stopped : \A j \in stopped : i >= j]
        ELSE [ok |-> TRUE,
              requestId |-> input.requestId,
              expectedPerPlan |-> toFixed(expectedPerPlanValue, 4),
              expectedTotal |-> toFixed(RMul(expectedPerPlanValue, FromInt(safePlanCount)), 4),
              entries |-> MakeSeq(Len(computed), [i \in Nat |-> computed[i].entry])]

\* the loop over the entries and the result: the first entry that fails or throws
\* ends the call
PlanOutput(input, computed) ==
    LET stopped == {i \in 1..Len(computed) :
                        IsError(computed[i]) \/ "ok" \in DOMAIN computed[i]}
        expectedPerPlanValue ==
            RSum(MakeSeq(Len(computed), [i \in Nat |-> computed[i].expectedPerEntryValue]))
        \* Math.max(1, parseIntegerText(input.planCountText))
        safePlanCount == IF RFloor(NumberOf(input.planCountText)) > 1
                         THEN RFloor(NumberOf(input.planCountText)) ELSE 1
    IN  IF stopped # {} THEN computed[CHOOSE i \in stopped : \A j \in stopped : i <= j]
        ELSE [ok |-> TRUE,
              requestId |-> input.requestId,
              expectedPerPlan |-> toFixed(expectedPerPlanValue, 4),
              expectedTotal |-> toFixed(RMul(expectedPerPlanValue, FromInt(safePlanCount)), 4),
              entries |-> MakeSeq(Len(computed), [i \in Nat |-> computed[i].entry])]

computeAttackPlan(input) ==
    IF Len(input.entries) < 1
    THEN asFailure(input.requestId, "at least 1 attack entry is needed")
    ELSE IF ~IsFinite(NumberOf(input.planCountText))
            \/ RLess(NumberOf(input.planCountText), One)
    THEN asFailure(input.requestId, "plan count must be a number of at least 1")
    ELSE PlanOutput(input, MakeSeq(Len(input.entries), [i \in Nat |->
                               computeOneEntry(input.entries[i], input.requestId, i - 1)]))

\* the requests posted to the worker: the first entry is the entry of the worker's tests
\* with one group of fields replaced, the later entries are that entry or one with a
\* broken main-hand damage text
InitWorker ==
    LET makeEntry ==
            [id |-> "entry-1",
             mainHandAttackBonusFixedText |-> "5", mainHandAttackBonusDie |-> "none",
             offHandAttackBonusFixedText |-> "5", offHandAttackBonusDie |-> "none",
             armorClassText |-> "15",
             mainHandDamageExprText |-> "1d8+3", offHandDamageExprText |-> "",
             advantageState |-> "normal", damageDiceMode |-> "normal",
             damageRollCountText |-> "2", criticalThresholdText |-> "20",
             halflingLucky |-> FALSE, modifier |-> "normal"]
        broken == [makeEntry EXCEPT !.id = "broken", !.mainHandDamageExprText = "1d"]
        first ==
            {makeEntry, broken,
             [makeEntry EXCEPT !.offHandDamageExprText = "  ",
                               !.offHandAttackBonusFixedText = "x"],
             [makeEntry EXCEPT !.offHandDamageExprText = "1d6+2",
                               !.offHandAttackBonusFixedText = "0"],
             [makeEntry EXCEPT !.offHandDamageExprText = " 1d6 + 2",
                               !.offHandAttackBonusFixedText = "10",
                               !.offHandAttackBonusDie = "1d4",
                               !.advantageState = "advantage"],
             [makeEntry EXCEPT !.offHandDamageExprText = "1d6+2",
                               !.offHandAttackBonusFixedText = "x"],
             [makeEntry EXCEPT !.offHandDamageExprText = "1d6+"],
             [makeEntry EXCEPT !.mainHandAttackBonusFixedText = ""],
             [makeEntry EXCEPT !.armorClassText = "abc"],
             [makeEntry EXCEPT !.armorClassText = "", !.modifier = "resistant"],
             [makeEntry EXCEPT !.damageDiceMode = "advantage", !.damageRollCountText = "7"],
             [makeEntry EXCEPT !.damageDiceMode = "disadvantage",
                               !.damageRollCountText = "2.5",
                               !.mainHandDamageExprText = "1d4+1",
                               !.offHandDamageExprText = "1d6"],
             [makeEntry EXCEPT !.damageDiceMode = "advantage",
                               !.mainHandDamageExprText = "1d4",
                               !.offHandDamageExprText = "1d4"],
             [makeEntry EXCEPT !.damageRollCountText = "x", !.halflingLucky = TRUE],
             [makeEntry EXCEPT !.criticalThresholdText = "9"],
             [makeEntry EXCEPT !.criticalThresholdText = "18.5",
                               !.offHandDamageExprText = "1d4-1"]}
        entries == UNION {{e \in [1..n -> first \cup {broken}] :
                               \A i \in 2..n : e[i] \in {makeEntry, broken}} :
                          n \in 0..MaxEntries}
    IN  /\ call \in [operation : {"computeAttackPlan"},
                     input : [entries : entries,
                              planCountText : {"1", "3", "2.5", "0", "x"},
                              requestId : {7}]]
        /\ returned = None
        /\ AlgebraIdle /\ AppIdle /\ AttackIdle /\ SingleRollIdle /\ DamageIdle /\ PlanIdle

\* self.onmessage: the result of computeAttackPlan(event.data) is posted back
OnMessage ==
    /\ call # None
    /\ call.operation = "computeAttackPlan"
    /\ returned = None
    /\ returned' = computeAttackPlan(call.input)
    /\ UNCHANGED <<appVars, call, algebraVars, attackVars, singleRollVars, damageVars, planVars>>

SpecWorker == InitWorker /\ [][OnMessage]_vars

StartsWith(text, prefix) ==
    Len(text) >= Len(prefix) /\ SubSeq(text, 1, Len(prefix)) = prefix

IsBlank(text) == skipWhitespace(text, 0) >= Len(text)

NotBetween(text, least, most) ==
    \/ ~IsFinite(NumberOf(text))
    \/ RLess(NumberOf(text), FromInt(least))
    \/ RLess(FromInt(most), NumberOf(text))

\* an expression, the armor class, the roll count or the critical threshold of the
\* entry is invalid
EntryInvalid(entry) ==
    \/ IsError(tryParseDiceExpression(entry.mainHandDamageExprText))
    \/ IsError(tryParseDiceExpression(buildAttackBonusExpressionText(
                   entry.mainHandAttackBonusFixedText, entry.mainHandAttackBonusDie)))
    \/ ~IsFinite(NumberOf(entry.armorClassText))
    \/ entry.damageDiceMode # "normal" /\ NotBetween(entry.damageRollCountText, 2, 5)
    \/ NotBetween(entry.criticalThresholdText, 10, 20)
    \/ /\ ~IsBlank(entry.offHandDamageExprText)
       /\ \/ IsError(tryParseDiceExpression(entry.offHandDamageExprText))
          \/ IsError(tryParseDiceExpression(buildAttackBonusExpressionText(
                         entry.offHandAttackBonusFixedText, entry.offHandAttackBonusDie)))

InvalidEntries(input) == {i \in 1..Len(input.entries) : EntryInvalid(input.entries[i])}

PlanCountInvalid(input) ==
    ~IsFinite(NumberOf(input.planCountText)) \/ RLess(NumberOf(input.planCountText), One)

\* { ok: false, requestId: input.requestId, errorMessage } and nothing else
IsFailureOf(input, output) ==
    /\ ~IsError(output)
    /\ DOMAIN output = {"ok", "requestId", "errorMessage"}
    /\ output.ok = FALSE
    /\ output.requestId = input.requestId

\* ok: true, the same requestId and one result per input entry in input order
IsSuccessOf(input, output) ==
    /\ ~IsError(output)
    /\ output.ok = TRUE
    /\ output.requestId = input.requestId
    /\ Len(output.entries) = Len(input.entries)
    /\ \A i \in 1..Len(input.entries) :
           /\ output.entries[i].id = input.entries[i].id
           /\ output.entries[i] =
                  computeOneEntry(input.entries[i], input.requestId, i - 1).entry

\* the message is the one of entry k and starts with the label of k
IsMessageOfEntry(input, output, k) ==
    /\ StartsWith(output.errorMessage, "entry " \o ToString(k) \o " ")
    /\ output.errorMessage =
           computeOneEntry(input.entries[k], input.requestId, k - 1).errorMessage

\* C18 as stated: invalid input is reported as the value {ok: false, requestId,
\* errorMessage}, never as an exception and without partial entries; whenever entries
\* are invalid the message is the one of the first invalid entry and starts with its
\* 1-based label; valid input gives ok: true, the same requestId and one result per
\* entry in input order.
FirstInvalidEntryReported ==
    (call # None /\ returned # None) =>
        IF \/ Len(call.input.entries) = 0
           \/ PlanCountInvalid(call.input)
           \/ InvalidEntries(call.input) # {}
        THEN /\ IsFailureOf(call.input, returned)
             /\ InvalidEntries(call.input) # {} =>
                    IsMessageOfEntry(call.input, returned,
                        CHOOSE k \in InvalidEntries(call.input) :
                            \A j \in InvalidEntries(call.input) : k <= j)
        ELSE IsSuccessOf(call.input, returned)

\* C18: invalid input is reported as the value {ok: false, requestId, errorMessage},
\* never as an exception and without partial entries; the plan count is checked before
\* the entries, so the message is the one of the first invalid entry, starting with its
\* 1-based label, when entries are invalid and the plan count is valid, and it names no
\* entry when the plan count is invalid; valid input gives ok: true, the same requestId
\* and one result per entry in input order.
InvalidInputReportedAsValue ==
    (call # None /\ returned # None) =>
        IF \/ Len(call.input.entries) = 0
           \/ PlanCountInvalid(call.input)
           \/ InvalidEntries(call.input) # {}
        THEN /\ IsFailureOf(call.input, returned)
             /\ IF Len(call.input.entries) = 0 \/ PlanCountInvalid(call.input)
                THEN ~StartsWith(returned.errorMessage, "entry ")
                ELSE IsMessageOfEntry(call.input, returned,
                         CHOOSE k \in InvalidEntries(call.input) :
                             \A j \in InvalidEntries(call.input) : k <= j)
        ELSE IsSuccessOf(call.input, returned)

\* two invalid entries under a valid plan count: the message is the one of the first
InvalidInputReportedAsValueWitness ==
    /\ call # None
    /\ returned # None
    /\ call.input.planCountText = "3"
    /\ InvalidEntries(call.input) = {1, 2}
    /\ call.input.entries[1].armorClassText = "abc"
    /\ returned = [ok |-> FALSE, requestId |-> 7,
                   errorMessage |-> "entry 1 target AC must be a number"]

\* the request of one hand of an entry, written out from its texts: the attack bonus
\* with the constant 0 the shared bonus effect appends, the critical faces from the
\* critical threshold, the roll count from the roll mode
HandRequest(entry, bonusFixedText, bonusDie, damageText) ==
    LET threshold == RFloor(NumberOf(entry.criticalThresholdText))
        rollCount == RFloor(NumberOf(entry.damageRollCountText))
    IN  [attack |->
             [attackBonusExpression |->
                  tryParseDiceExpression(
                      buildAttackBonusExpressionText(bonusFixedText, bonusDie)).components
                  \o <<Const(0)>>,
              armorClass |-> -RFloor(RNeg(NumberOf(entry.armorClassText))),
              advantageState |-> entry.advantageState,
              rules |-> [dieSides |-> FromInt(20), autoMissFaces |-> {1},
                         autoCritFaces |-> (IF threshold < 17 THEN 17 ELSE threshold)..20],
              halflingLucky |-> entry.halflingLucky],
         damage |->
             [expression |-> tryParseDiceExpression(damageText).components,
              criticalDiceMultiplier |-> FromInt(2),
              modifier |-> entry.modifier,
              diceRollMode |-> entry.damageDiceMode,
              damageRollCount |-> IF entry.damageDiceMode = "normal" THEN One
                                  ELSE FromInt(rollCount),
              rerollLowThreshold |-> Undefined]]

MainHandExpectation(entry) ==
    calculateAttackDamage(HandRequest(entry, entry.mainHandAttackBonusFixedText,
                                      entry.mainHandAttackBonusDie,
                                      entry.mainHandDamageExprText)).expectedDamagePerAttack

OffHandExpectation(entry) ==
    calculateAttackDamage(HandRequest(entry, entry.offHandAttackBonusFixedText,
                                      entry.offHandAttackBonusDie,
                                      entry.offHandDamageExprText)).expectedDamagePerAttack

\* the entry is computed as a single main-hand step and its off-hand attack bonus
\* fields are neither validated nor used
IsMainHandOnly(entry, result, requestId, index) ==
    /\ result.hasOffHandStep = FALSE
    /\ result.expectedMainHand = toFixed(MainHandExpectation(entry), 4)
    /\ result.expectedOffHand = "0.0000"
    /\ result.expectedOnHitOffHand = "0.0000"
    /\ result.expectedOnCritOffHand = "0.0000"
    /\ result.offHandProbabilitySummary = "-"
    /\ result.expectedPerEntry = result.expectedMainHand
    /\ \A fixedText \in {"x", "", "12"}, die \in {"none", "1d12"} :
           computeOneEntry([entry EXCEPT !.offHandAttackBonusFixedText = fixedText,
                                         !.offHandAttackBonusDie = die],
                           requestId, index).entry = result

\* the entry has a second step made of the off-hand attack bonus and the off-hand
\* damage expression
HasOffHandStep(entry, result) ==
    /\ result.hasOffHandStep = TRUE
    /\ result.expectedMainHand = toFixed(MainHandExpectation(entry), 4)
    /\ result.expectedOffHand = toFixed(OffHandExpectation(entry), 4)
    /\ result.offHandProbabilitySummary # "-"

\* C19 as stated: an entry whose off-hand damage text is blank is computed as a single
\* main-hand step (hasOffHandStep false, the off-hand fields '0.0000', the off-hand
\* summary '-', expectedPerEntry = expectedMainHand) whatever its off-hand attack bonus
\* fields hold; otherwise a second step with the off-hand attack bonus and the off-hand
\* damage expression is added and expectedPerEntry = expectedMainHand + expectedOffHand.
OffHandAddsToEntry ==
    (call # None /\ returned # None /\ ~IsError(returned) /\ returned.ok) =>
        \A i \in 1..Len(call.input.entries) :
            IF IsBlank(call.input.entries[i].offHandDamageExprText)
            THEN IsMainHandOnly(call.input.entries[i], returned.entries[i],
                                call.input.requestId, i - 1)
            ELSE /\ HasOffHandStep(call.input.entries[i], returned.entries[i])
                 /\ NumberOf(returned.entries[i].expectedPerEntry) =
                        RAdd(NumberOf(returned.entries[i].expectedMainHand),
                             NumberOf(returned.entries[i].expectedOffHand))

\* the distance of the displayed expectedPerEntry from the sum of the displayed hands
DisplayedGap(result) ==
    LET gap == RSub(NumberOf(result.expectedPerEntry),
                    RAdd(NumberOf(result.expectedMainHand),
                         NumberOf(result.expectedOffHand)))
    IN  IF gap[1] < 0 THEN RNeg(gap) ELSE gap

\* C19: an entry whose off-hand damage text is blank is computed as a single main-hand
\* step (hasOffHandStep false, the off-hand fields '0.0000', the off-hand summary '-',
\* expectedPerEntry = expectedMainHand) whatever its off-hand attack bonus fields hold;
\* otherwise a second step with the off-hand attack bonus and the off-hand damage
\* expression is added and expectedPerEntry is the sum of the two expectations before
\* they are rounded, displayed to 4 decimals: it is within 0.0001 of the displayed
\* expectedMainHand + expectedOffHand.
OffHandFallback ==
    (call # None /\ returned # None /\ ~IsError(returned) /\ returned.ok) =>
        \A i \in 1..Len(call.input.entries) :
            IF IsBlank(call.input.entries[i].offHandDamageExprText)
            THEN IsMainHandOnly(call.input.entries[i], returned.entries[i],
                                call.input.requestId, i - 1)
            ELSE /\ HasOffHandStep(call.input.entries[i], returned.entries[i])
                 /\ returned.entries[i].expectedPerEntry =
                        toFixed(RAdd(MainHandExpectation(call.input.entries[i]),
                                     OffHandExpectation(call.input.entries[i])), 4)
                 /\ RLeq(DisplayedGap(returned.entries[i]), <<1, 10000>>)

\* 1d4 in both hands, the higher of two damage rolls: 1.8570 and 1.8570 but 3.7141,
\* followed by an entry without an off-hand
OffHandFallbackWitness ==
    /\ call # None
    /\ returned # None
    /\ ~IsError(returned)
    /\ returned.ok
    /\ Len(returned.entries) = 2
    /\ returned.entries[1].hasOffHandStep
    /\ returned.entries[1].expectedMainHand = "1.8570"
    /\ returned.entries[1].expectedOffHand = "1.8570"
    /\ returned.entries[1].expectedPerEntry = "3.7141"
    /\ ~returned.entries[2].hasOffHandStep
    /\ returned.entries[2].expectedPerEntry = returned.entries[2].expectedMainHand

-----------------------------------------------------------------------------
(* The image of a distribution.                                            *)

\* result is the image of distribution d under the transform of that name
IsImage(d, name, result) ==
    LET image == {Transform(name, x) : x \in Outcomes(d)}
    IN  /\ Outcomes(result) = image
        /\ Len(result.entries) = Cardinality(image)
        /\ \A y \in image :
               /\ ProbabilityAt(result, y) =
                      SumOver({x \in Outcomes(d) : Transform(name, x) = y},
                              [x \in Int |-> ProbabilityAt(d, x)])
               /\ result.map[y] = ProbabilityAt(result, y)
        /\ result.totalProbability = d.totalProbability

\* C23: mapOutcomes(d, f) returns the image distribution of d under f: for every
\* outcome y, P_out(y) is the sum of P_d(x) over all x with f(x) = y, so colliding
\* outcomes are summed and never overwritten and the total probability is unchanged;
\* d itself is left unchanged.
MapOutcomesIsImage ==
    [][\A name \in Transforms : MapOutcomes(name) => IsImage(dist, name, dist')]_vars

\* a d3 mapped by the resistant modifier: 2 and 3 both become 1, of probability 2/3
MapOutcomesIsImageWitness ==
    /\ Succeeded(dist)
    /\ opCount = 1
    /\ dist = mapOutcomes(uniformDie(FromInt(3)),
                          [outcome \in Int |-> Transform("resistant", outcome)])
    /\ dist.entries = <<Entry(0, <<1, 3>>), Entry(1, <<2, 3>>)>>

-----------------------------------------------------------------------------
(* Halfling lucky on the attack die.                                       *)

MaxLuckyArmorClass == 26

\* attack checks without halflingLucky: a d20 with the rules of the game, and smaller
\* dice with the lowest face missing and the highest one a critical hit
InitLucky ==
    LET rules == {[dieSides |-> FromInt(d), autoMissFaces |-> {1}, autoCritFaces |-> {d}] :
                     d \in {2, 6, 20}}
        expressions == {<<Const(0)>>, <<Const(5)>>, <<Const(2), Dice(1, 4, 1)>>,
                        <<Const(3), Dice(1, 4, -1)>>}
    IN  /\ attack \in [armorClass : 0..MaxLuckyArmorClass,
                       attackBonusExpression : expressions,
                       advantageState : AdvantageStates,
                       rules : rules,
                       halflingLucky : {FALSE}]
        /\ attackResult = None
        /\ previous = None
        /\ AlgebraIdle /\ AppIdle /\ CallIdle /\ SingleRollIdle /\ DamageIdle /\ PlanIdle

\* the caller repeats the calculation with halflingLucky enabled
EnableHalflingLucky ==
    /\ attackResult # None
    /\ previous = None
    /\ ~attack.halflingLucky
    /\ previous' = [input |-> attack, result |-> attackResult]
    /\ attack' = [attack EXCEPT !.halflingLucky = TRUE]
    /\ attackResult' = None
    /\ UNCHANGED <<appVars, algebraVars, singleRollVars, damageVars, planVars, callVars>>

NextLucky ==
    \/ CalculateAttackOutcomeProbabilities
    \/ EnableHalflingLucky

SpecLucky == InitLucky /\ [][NextLucky]_vars

\* the chance of a face of a lucky die of n sides: two rolls, the first one discarded
\* only when it shows face 1
LuckyFace(n, face) ==
    IF face = 1 THEN Rat(1, n * n) ELSE RAdd(Rat(1, n), Rat(1, n * n))

\* the chance that a lucky die of n sides shows at most face
LuckyAtMost(n, face) ==
    RSum(MakeSeq(face, [k \in Nat |-> LuckyFace(n, k)]))

\* the chance that the roll kept under an advantage state shows face
LuckyKept(n, face, advantageState) ==
    LET at == LuckyAtMost(n, face)
        before == LuckyAtMost(n, face - 1)
    IN  IF advantageState = "normal" THEN LuckyFace(n, face)
        ELSE IF advantageState = "advantage"
        THEN RSub(RMul(at, at), RMul(before, before))
        ELSE RSub(RMul(RSub(One, before), RSub(One, before)),
                  RMul(RSub(One, at), RSub(One, at)))

\* the miss chance of a lucky attack from the kept-face chances
LuckyMiss(input, bonus) ==
    RSum(MakeSeq(input.rules.dieSides[1], [face \in Nat |->
        IF face \in input.rules.autoMissFaces
        THEN LuckyKept(input.rules.dieSides[1], face, input.advantageState)
        ELSE IF face \in input.rules.autoCritFaces THEN Zero
        ELSE RMul(LuckyKept(input.rules.dieSides[1], face, input.advantageState),
                  RSub(One, probabilityAtLeast(bonus, input.armorClass - face)))]))

\* C24: with halflingLucky the per-face base distribution of the attack die is p*p for
\* face 1 and p + p*p for every face 2..dieSides (p = 1/dieSides), which sums to 1 and
\* is what advantage/disadvantage order statistics are then computed from; for rules
\* with auto-miss {1} and auto-crit {20} and any armorClass, bonus and advantage state,
\* enabling halflingLucky strictly lowers miss and strictly raises hit + critical.
HalflingLuckyDistribution ==
    (previous # None /\ attackResult # None) =>
        LET n == attack.rules.dieSides[1]
            base == buildSingleDieDistribution(n, TRUE)
        IN  /\ attack.halflingLucky /\ ~previous.input.halflingLucky
            /\ Succeeded(attackResult)
            /\ DOMAIN base = 0..n
            /\ base[0] = Zero
            /\ \A face \in 1..n : base[face] = LuckyFace(n, face)
            /\ RSumRange(base, 1, n) = One
            /\ attackResult.miss =
                   LuckyMiss(attack, buildAttackBonusDistribution(attack.attackBonusExpression))
            /\ NonMiss(attackResult) = RSub(One, attackResult.miss)
            /\ attack.rules = [dieSides |-> FromInt(20), autoMissFaces |-> {1},
                               autoCritFaces |-> {20}] =>
                   /\ RLess(attackResult.miss, previous.result.miss)
                   /\ RLess(NonMiss(previous.result), NonMiss(attackResult))

\* the attack of the tests' kind: a d20 against armor class 15 with +5, under advantage
HalflingLuckyDistributionWitness ==
    /\ previous # None /\ Succeeded(attackResult)
    /\ attack.halflingLucky
    /\ attack.rules.dieSides = FromInt(20)
    /\ attack.armorClass = 15
    /\ attack.attackBonusExpression = <<Const(5)>>
    /\ attack.advantageState = "advantage"
    /\ RLess(attackResult.miss, previous.result.miss)
    /\ RLess(previous.result.critical, attackResult.critical)

-----------------------------------------------------------------------------
(* Rerolling low damage dice.                                              *)

MaxRerollSides == 4

\* damage requests of one positive dice term, with or without a constant, whose reroll
\* threshold is absent or runs in halves from -1 to one above the sides of the largest
\* die; the attack hits on a 2 and is a critical hit on a 3 of a d3
InitReroll ==
    LET expressions ==
            {<<Dice(count, sides, 1)>> : count \in 1..2, sides \in 1..MaxRerollSides}
            \cup {<<Dice(count, sides, 1), Const(1)>> :
                     count \in 1..2, sides \in 1..MaxRerollSides}
        thresholds == {Undefined} \cup {Rat(k, 2) : k \in -2..(2 * MaxRerollSides + 2)}
    IN  /\ damageRequest \in
               [attack : {[armorClass |-> 2, attackBonusExpression |-> <<Const(0)>>,
                           advantageState |-> "normal",
                           rules |-> [dieSides |-> FromInt(3), autoMissFaces |-> {1},
                                      autoCritFaces |-> {3}],
                           halflingLucky |-> FALSE]},
                damage : [expression : expressions,
                          criticalDiceMultiplier : {FromInt(2)},
                          modifier : {"normal"},
                          diceRollMode : {UndefinedMode},
                          damageRollCount : {Undefined},
                          rerollLowThreshold : thresholds]]
        /\ damageResult = None
        /\ AlgebraIdle /\ AppIdle /\ CallIdle /\ AttackIdle /\ SingleRollIdle /\ PlanIdle

SpecReroll == InitReroll /\ [][CalculateAttackDamage]_vars

\* the threshold in force: 0 when rerollLowThreshold is absent or not positive, else
\* its floor capped at sides
EffectiveThreshold(sides, rerollLowThreshold) ==
    IF rerollLowThreshold = Undefined THEN 0
    ELSE IF rerollLowThreshold[1] <= 0 THEN 0
    ELSE IF RFloor(rerollLowThreshold) > sides THEN sides
    ELSE RFloor(rerollLowThreshold)

\* the chance of a face of a die of that many sides under the threshold t in force
RerollFace(sides, t, face) ==
    IF face <= t THEN Rat(t, sides * sides)
    ELSE RAdd(Rat(1, sides), Rat(t, sides * sides))

\* the distribution of a die is the one the threshold t in force gives
IsRerollDie(die, sides, t) ==
    /\ Outcomes(die) = 1..sides
    /\ \A face \in 1..sides : ProbabilityAt(die, face) = RerollFace(sides, t, face)
    /\ SumOver(1..sides, [face \in Int |-> RerollFace(sides, t, face)]) = One
    /\ die.totalProbability = One

\* the sum of count independent dice, moved by the constant terms of the expression
DiceSum(die, count, expression) ==
    shift(repeatConvolve(die, count), RFloor(ConstantSum(expression)))

\* C25: with rerollLowThreshold absent or <= 0 each die is uniform; otherwise, with t
\* the threshold floored and capped at sides, every face <= t has probability
\* t/sides^2 and every face > t has probability 1/sides + t/sides^2, which sums to 1
\* for every sides and t; this per-die distribution is used for every die of both the
\* hit and the critical branch, and for 0 < t < sides it strictly raises the expected
\* damage of a positive dice term.
RerollLowPerDie ==
    Succeeded(damageResult) =>
        LET damage == damageRequest.damage
            term == damage.expression[1]
            sides == term.sides[1]
            t == EffectiveThreshold(sides, damage.rerollLowThreshold)
        IN  [die \in Any |->
                /\ IsRerollDie(die, sides, t)
                /\ t = 0 => die = uniformDie(term.sides)
                /\ SameLaw(damageResult.hitDamageDistribution,
                           DiceSum(die, term.count, damage.expression))
                /\ SameLaw(damageResult.criticalDamageDistribution,
                           DiceSum(die, RMul(term.count, damage.criticalDiceMultiplier),
                                   damage.expression))
                /\ [plain \in Any |->
                       IF 0 < t /\ t < sides
                       THEN /\ RLess(plain.expectedDamageOnHit,
                                     damageResult.expectedDamageOnHit)
                            /\ RLess(plain.expectedDamageOnCritical,
                                     damageResult.expectedDamageOnCritical)
                            /\ RLess(plain.expectedDamagePerAttack,
                                     damageResult.expectedDamagePerAttack)
                       ELSE plain = damageResult
                   ][calculateAttackDamage(
                         [damageRequest EXCEPT !.damage.rerollLowThreshold = Undefined])]
            ][buildRerollLowDieDistribution(term.sides, damage.rerollLowThreshold)]

\* 1d6 is beyond the bound of the model; 2d4+1 with threshold 5/2 rerolls the faces 1
\* and 2
RerollLowPerDieWitness ==
    /\ Succeeded(damageResult)
    /\ damageRequest.damage.expression = <<Dice(2, 4, 1), Const(1)>>
    /\ damageRequest.damage.rerollLowThreshold = <<5, 2>>
    /\ ProbabilityAt(buildRerollLowDieDistribution(FromInt(4), <<5, 2>>), 1) = <<1, 8>>
    /\ ProbabilityAt(buildRerollLowDieDistribution(FromInt(4), <<5, 2>>), 4) = <<3, 8>>
    /\ damageResult.expectedDamageOnHit = <<7, 1>>

-----------------------------------------------------------------------------
(* The damage roll mode.                                                   *)

MaxRollCount == 3

\* damage requests under every roll mode, with the roll count absent or running in
\* halves from -1 to MaxRollCount; the attack hits on a 2 and is a critical hit on a 3
\* of a d3; the expressions are 1d2+1, 1d3, 2, 1d2-1d2 and 2d2-1
InitRollMode ==
    /\ damageRequest \in
           [attack : {[armorClass |-> 2, attackBonusExpression |-> <<Const(0)>>,
                       advantageState |-> "normal",
                       rules |-> [dieSides |-> FromInt(3), autoMissFaces |-> {1},
                                  autoCritFaces |-> {3}],
                       halflingLucky |-> FALSE]},
            damage : [expression : {<<Dice(1, 2, 1), Const(1)>>, <<Dice(1, 3, 1)>>,
                                    <<Const(2)>>, <<Dice(1, 2, 1), Dice(1, 2, -1)>>,
                                    <<Dice(2, 2, 1), Const(-1)>>},
                      criticalDiceMultiplier : {FromInt(2)},
                      modifier : DamageModifiers,
                      diceRollMode : {UndefinedMode, "normal", "advantage", "disadvantage"},
                      damageRollCount :
                          {Undefined} \cup {Rat(k, 2) : k \in -2..(2 * MaxRollCount)},
                      rerollLowThreshold : {Undefined}]]
    /\ damageResult = None
    /\ AlgebraIdle /\ AppIdle /\ CallIdle /\ AttackIdle /\ SingleRollIdle /\ PlanIdle

SpecRollMode == InitRollMode /\ [][CalculateAttackDamage]_vars

\* the number of rolls: the floor of the given count, at least 1; without a count 1
\* roll in normal mode and 2 otherwise
RollsOf(damage) ==
    IF damage.damageRollCount # Undefined
    THEN IF RFloor(damage.damageRollCount) > 1 THEN RFloor(damage.damageRollCount) ELSE 1
    ELSE IF damage.diceRollMode \in {UndefinedMode, "normal"} THEN 1 ELSE 2

\* the hit and the critical distribution of `result` are those of the highest (lowest)
\* of n rolls of the whole damage of `plain`
IsExtremeOfRolls(plain, n, result, highest) ==
    /\ IsExtremeOfDraws(plain.hitDamageDistribution, n,
                        result.hitDamageDistribution, highest)
    /\ IsExtremeOfDraws(plain.criticalDamageDistribution, n,
                        result.criticalDamageDistribution, highest)

\* the expected damage on hit and on critical of `lower` is at most that of `higher`
ExpectedAtMost(lower, higher) ==
    /\ RLeq(lower.expectedDamageOnHit, higher.expectedDamageOnHit)
    /\ RLeq(lower.expectedDamageOnCritical, higher.expectedDamageOnCritical)

\* C26: the roll count is max(1, floor(damageRollCount)) when damageRollCount is given,
\* else 1 for normal mode and 2 otherwise; with mode normal (whatever the count) or
\* count <= 1 the hit and critical distributions are exactly the plain expression
\* distributions; with advantage (disadvantage) they are the maximum (minimum) of count
\* independent rolls of the whole expression total, not a per-die maximum, so the
\* expected damage on hit and on critical is non-decreasing (non-increasing) in the
\* count.
RollModeOnWholeTotal ==
    Succeeded(damageResult) =>
        LET damage == damageRequest.damage
            n == RollsOf(damage)
            normal == damage.diceRollMode \in {UndefinedMode, "normal"}
            highest == damage.diceRollMode = "advantage"
        IN  /\ [plain \in Any |->
                   IF normal \/ n <= 1
                   THEN /\ damageResult.hitDamageDistribution = plain.hitDamageDistribution
                        /\ damageResult.criticalDamageDistribution =
                               plain.criticalDamageDistribution
                   ELSE IsExtremeOfRolls(plain, n, damageResult, highest)
               ][calculateAttackDamage(
                     [damageRequest EXCEPT !.damage.diceRollMode = UndefinedMode,
                                           !.damage.damageRollCount = Undefined])]
            /\ [fewer \in Any |->
                   IF normal THEN fewer = damageResult
                   ELSE IF highest THEN ExpectedAtMost(fewer, damageResult)
                   ELSE ExpectedAtMost(damageResult, fewer)
               ][calculateAttackDamage(
                     [damageRequest EXCEPT !.damage.damageRollCount = FromInt(n - 1)])]

\* 2d2-1 under advantage with 5/2 rolls: the higher of two rolls of the total, where
\* the sum of the higher of two rolls of each die would give 1/16, 3/8, 9/16
RollModeOnWholeTotalWitness ==
    /\ Succeeded(damageResult)
    /\ damageRequest.damage.expression = <<Dice(2, 2, 1), Const(-1)>>
    /\ damageRequest.damage.diceRollMode = "advantage"
    /\ damageRequest.damage.damageRollCount = <<5, 2>>
    /\ damageRequest.damage.modifier = "normal"
    /\ damageResult.hitDamageDistribution.entries =
           <<Entry(1, <<1, 16>>), Entry(2, <<1, 2>>), Entry(3, <<7, 16>>)>>

-----------------------------------------------------------------------------
(* Damage expressions whose raw total can be negative.                     *)

\* damage models of the expressions 1d4-5, 1d2-1d2, -2, 1d3-2 and 2d2-1 under every
\* modifier, rolled once or with advantage
SignedDamageModels ==
    [expression : {<<Dice(1, 4, 1), Const(-5)>>, <<Dice(1, 2, 1), Dice(1, 2, -1)>>,
                   <<Const(-2)>>, <<Dice(1, 3, 1), Const(-2)>>,
                   <<Dice(2, 2, 1), Const(-1)>>},
     criticalDiceMultiplier : {FromInt(2)},
     modifier : DamageModifiers,
     diceRollMode : {UndefinedMode, "advantage"},
     damageRollCount : {Undefined},
     rerollLowThreshold : {Undefined}]

\* a caller of calculateAttackDamage, or one of calculateAttackDamagePlan with up to
\* MaxSteps steps of three of these models, at most one of them repeated twice; the
\* attack hits on a 2 and is a critical hit on a 3 of a d3
InitSigned ==
    LET attacks == {[armorClass |-> 2, attackBonusExpression |-> <<Const(0)>>,
                     advantageState |-> "normal",
                     rules |-> [dieSides |-> FromInt(3), autoMissFaces |-> {1},
                                autoCritFaces |-> {3}],
                     halflingLucky |-> FALSE]}
        stepModels == {m \in SignedDamageModels :
                          /\ m.diceRollMode = UndefinedMode
                          /\ \/ /\ m.expression = <<Dice(1, 4, 1), Const(-5)>>
                                /\ m.modifier = "normal"
                             \/ /\ m.expression = <<Dice(1, 3, 1), Const(-2)>>
                                /\ m.modifier = "vulnerable"
                             \/ /\ m.expression = <<Const(-2)>>
                                /\ m.modifier = "immune"}
        steps == [request : [attack : attacks, damage : stepModels],
                  repeat : {Undefined, FromInt(2)}]
    IN  \/ /\ damageRequest \in [attack : attacks, damage : SignedDamageModels]
           /\ damageResult = None
           /\ AlgebraIdle /\ AppIdle /\ CallIdle /\ AttackIdle /\ SingleRollIdle /\ PlanIdle
        \/ /\ plan \in [steps : UNION {{list \in [1..n -> steps] :
                                            Cardinality({i \in 1..n :
                                                list[i].repeat # Undefined}) <= 1} :
                                        n \in 0..MaxSteps}]
           /\ planResult = None
           /\ AlgebraIdle /\ AppIdle /\ CallIdle /\ AttackIdle /\ SingleRollIdle /\ DamageIdle

NextSigned ==
    \/ CalculateAttackDamage
    \/ CalculateAttackDamagePlan

SpecSigned == InitSigned /\ [][NextSigned]_vars

\* every outcome of the three distributions of a result is a non-negative integer
ResultNonNegative(result) ==
    /\ Outcomes(result.hitDamageDistribution) \subseteq Nat
    /\ Outcomes(result.criticalDamageDistribution) \subseteq Nat
    /\ Outcomes(result.totalDamageDistribution) \subseteq Nat

\* the law of `mapped` is the law of `raw` with every negative outcome moved to 0
NegativesAtZero(raw, mapped) ==
    /\ ProbabilityAt(mapped, 0) = probabilityAtMost(raw, 0)
    /\ \A x \in (Outcomes(raw) \cup Outcomes(mapped)) \ {0} :
           ProbabilityAt(mapped, x) = IF x > 0 THEN ProbabilityAt(raw, x) ELSE Zero

\* C27: every outcome of hitDamageDistribution, criticalDamageDistribution and
\* totalDamageDistribution returned by calculateAttackDamage, and of every plan
\* distribution returned by calculateAttackDamagePlan, is a non-negative integer for
\* every damage expression and modifier (including 'normal'): raw totals that are
\* negative are mapped to 0, and with modifier immune both branch distributions are
\* the single point 0 so expectedDamagePerAttack = 0.
OutcomesNonNegative ==
    /\ damageResult # None =>
           /\ Succeeded(damageResult)
           /\ ResultNonNegative(damageResult)
           /\ damageRequest.damage.modifier = "normal" =>
                  /\ NegativesAtZero(RawDamageDistribution(damageRequest.damage, FALSE),
                                     damageResult.hitDamageDistribution)
                  /\ NegativesAtZero(RawDamageDistribution(damageRequest.damage, TRUE),
                                     damageResult.criticalDamageDistribution)
           /\ damageRequest.damage.modifier = "immune" =>
                  /\ damageResult.hitDamageDistribution.entries = <<Entry(0, One)>>
                  /\ damageResult.criticalDamageDistribution.entries = <<Entry(0, One)>>
                  /\ damageResult.expectedDamagePerAttack = Zero
    /\ planResult # None =>
           /\ Succeeded(planResult)
           /\ Outcomes(planResult.totalDamageDistribution) \subseteq Nat
           /\ \A i \in 1..Len(planResult.steps) :
                  /\ Outcomes(planResult.steps[i].totalDamageDistribution) \subseteq Nat
                  /\ ResultNonNegative(planResult.steps[i].result)

\* 1d4-5 with the modifier normal: every hit deals 0, a critical hit (2d4-5) deals 0
\* with probability 5/8
OutcomesNonNegativeWitness ==
    /\ Succeeded(damageResult)
    /\ damageRequest.damage.expression = <<Dice(1, 4, 1), Const(-5)>>
    /\ damageRequest.damage.modifier = "normal"
    /\ damageRequest.damage.diceRollMode = UndefinedMode
    /\ damageResult.hitDamageDistribution.entries = <<Entry(0, One)>>
    /\ ProbabilityAt(damageResult.criticalDamageDistribution, 0) = <<5, 8>>
    /\ Outcomes(damageResult.criticalDamageDistribution) = 0..3

-----------------------------------------------------------------------------
(* apps/desktop-tauri: the App component and its compute worker.           *)
(* An effect run for every change of the inputs clears the debounce timer, *)
(* terminates the active worker and sets a new timer; the timer creates a  *)
(* worker and posts the request; the worker's message and error events are *)
(* handled on the App's thread in the order in which they were queued.     *)

MaxRequests == 3         \* App: the compute effect runs at most MaxRequests times

EMPTY_RESULT == [expectedPerPlan |-> "-", expectedTotal |-> "-", entries |-> <<>>]

\* the message of worker.onerror
WorkerCrashedMessage == "the compute thread ended abnormally, please retry"

makeDefaultEntry ==
    [id |-> "entry-1",
     mainHandAttackBonusFixedText |-> "5", mainHandAttackBonusDie |-> "none",
     offHandAttackBonusFixedText |-> "5", offHandAttackBonusDie |-> "none",
     armorClassText |-> "15",
     mainHandDamageExprText |-> "1d8+3", offHandDamageExprText |-> "",
     advantageState |-> "normal", damageDiceMode |-> "normal",
     damageRollCountText |-> "2", criticalThresholdText |-> "20",
     halflingLucky |-> FALSE, modifier |-> "normal"]

\* the inputs a user reaches in the model: the default entry and three plan counts,
\* the last of which the worker refuses
AppInputs == [entries : {<<makeDefaultEntry>>}, planCountText : {"1", "2", "x"}]

\* computeAttackPlan(event.data) for every request the App can post
WorkerOutputs ==
    {[input |-> request, output |-> computeAttackPlan(request)] :
        request \in [entries : {<<makeDefaultEntry>>}, planCountText : {"1", "2", "x"},
                     requestId : 1..MaxRequests]}

WorkerOutput(request) == (CHOOSE computed \in WorkerOutputs : computed.input = request).output

\* useState and useRef of App before the first effect
InitApp ==
    /\ phase = "created"
    /\ computeInput = [entries |-> <<makeDefaultEntry>>, planCountText |-> "1"]
    /\ uiErrorMessage = ""
    /\ uiResult = EMPTY_RESULT
    /\ isComputing = FALSE
    /\ activeWorkerRef = 0
    /\ requestIdRef = 0
    /\ debounceTimerRef = 0
    /\ timers = {}
    /\ workers = <<>>
    /\ events = <<>>
    /\ AlgebraIdle /\ CallIdle /\ AttackIdle /\ SingleRollIdle /\ DamageIdle /\ PlanIdle

\* window.clearTimeout(debounceTimerRef.current) when the ref is not null
ClearDebounceTimer(pending) ==
    IF debounceTimerRef # 0 THEN {t \in pending : t.id # debounceTimerRef} ELSE pending

\* activeWorkerRef.current.terminate() when the ref is not null
TerminateActiveWorker ==
    IF activeWorkerRef # 0
    THEN [workers EXCEPT ![activeWorkerRef].terminated = TRUE]
    ELSE workers

\* the compute effect: the cleanup of its previous run, then its body for the inputs
\* of the new render
ComputeEffect(input) ==
    LET requestId == requestIdRef + 1
    IN  /\ requestIdRef < MaxRequests
        /\ computeInput' = input
        /\ workers' = TerminateActiveWorker
        /\ activeWorkerRef' = 0
        /\ isComputing' = TRUE
        /\ requestIdRef' = requestId
        /\ timers' = ClearDebounceTimer(timers)
                        \cup {[id |-> requestId, computeInput |-> input, requestId |-> requestId]}
        /\ debounceTimerRef' = requestId
        /\ UNCHANGED <<uiErrorMessage, uiResult, events>>

\* the first render, or the render that follows an unmount that kept the state
Mount ==
    /\ phase \in {"created", "unmounted"}
    /\ phase' = "mounted"
    /\ ComputeEffect(computeInput)
    /\ UNCHANGED <<algebraVars, attackVars, singleRollVars, damageVars, planVars, callVars>>

\* setEntries or setPlanCountText, the render and the compute effect that follow
ChangeInput(input) ==
    /\ phase = "mounted"
    /\ ComputeEffect(input)
    /\ UNCHANGED <<phase, algebraVars, attackVars, singleRollVars, damageVars, planVars,
                   callVars>>

\* the cleanups of both effects
Unmount ==
    /\ phase = "mounted"
    /\ phase' = "unmounted"
    /\ timers' = ClearDebounceTimer(timers)
    /\ workers' = TerminateActiveWorker
    /\ activeWorkerRef' = 0
    /\ UNCHANGED <<computeInput, uiErrorMessage, uiResult, isComputing, requestIdRef,
                   debounceTimerRef, events>>
    /\ UNCHANGED <<algebraVars, attackVars, singleRollVars, damageVars, planVars, callVars>>

\* the callback of window.setTimeout: a new worker becomes the active worker and is
\* posted the inputs and the request id of the effect run that set the timer
TimerFires ==
    \E t \in timers :
        /\ timers' = timers \ {t}
        /\ workers' = workers @@ (t.requestId :>
                          [terminated |-> FALSE,
                           inbox |-> [entries |-> t.computeInput.entries,
                                      planCountText |-> t.computeInput.planCountText,
                                      requestId |-> t.requestId],
                           delivery |-> "none"])
        /\ activeWorkerRef' = t.requestId
        /\ UNCHANGED <<phase, computeInput, uiErrorMessage, uiResult, isComputing,
                       requestIdRef, debounceTimerRef, events>>
        /\ UNCHANGED <<algebraVars, attackVars, singleRollVars, damageVars, planVars,
                       callVars>>

\* self.onmessage in a worker that was not terminated: the result of
\* computeAttackPlan(event.data) is posted back; an exception that leaves the handler
\* is reported to the Worker object as an error event
WorkerOnMessage(worker) ==
    /\ worker \in DOMAIN workers
    /\ ~workers[worker].terminated
    /\ workers[worker].inbox # None
    /\ workers' = [workers EXCEPT ![worker].inbox = None, ![worker].delivery = "queued"]
    /\ LET output == WorkerOutput(workers[worker].inbox)
       IN  events' = Append(events, IF IsError(output)
                                    THEN [worker |-> worker, kind |-> "error"]
                                    ELSE [worker |-> worker, kind |-> "message",
                                          data |-> output])
    /\ UNCHANGED <<phase, computeInput, uiErrorMessage, uiResult, isComputing,
                   activeWorkerRef, requestIdRef, debounceTimerRef, timers>>
    /\ UNCHANGED <<algebraVars, attackVars, singleRollVars, damageVars, planVars, callVars>>

\* a worker that fails before it answers (its script does not load, or it runs out of
\* memory): the Worker object is sent an error event
WorkerFails(worker) ==
    /\ worker \in DOMAIN workers
    /\ ~workers[worker].terminated
    /\ workers[worker].inbox # None
    /\ events' = Append(events, [worker |-> worker, kind |-> "error"])
    /\ workers' = [workers EXCEPT ![worker].inbox = None, ![worker].delivery = "queued"]
    /\ UNCHANGED <<phase, computeInput, uiErrorMessage, uiResult, isComputing,
                   activeWorkerRef, requestIdRef, debounceTimerRef, timers>>
    /\ UNCHANGED <<algebraVars, attackVars, singleRollVars, damageVars, planVars, callVars>>

\* worker.onmessage applying every reply, whatever its request id
OnWorkerMessageUnguarded ==
    /\ events # <<>>
    /\ events[1].kind = "message"
    /\ LET worker == events[1].worker
           payload == events[1].data
       IN  /\ IF ~payload.ok
              THEN uiErrorMessage' = payload.errorMessage /\ uiResult' = EMPTY_RESULT
              ELSE /\ uiErrorMessage' = ""
                   /\ uiResult' = [expectedPerPlan |-> payload.expectedPerPlan,
                                   expectedTotal |-> payload.expectedTotal,
                                   entries |-> payload.entries]
           /\ isComputing' = FALSE
           /\ workers' = [workers EXCEPT ![worker].terminated = TRUE,
                                         ![worker].delivery = "applied"]
           /\ activeWorkerRef' = IF activeWorkerRef = worker THEN 0
                                 ELSE activeWorkerRef
    /\ events' = Tail(events)
    /\ UNCHANGED <<phase, computeInput, requestIdRef, debounceTimerRef, timers>>
    /\ UNCHANGED <<algebraVars, attackVars, singleRollVars, damageVars, planVars, callVars>>

\* worker.onmessage on the App's thread, for the oldest queued event
OnWorkerMessage ==
    /\ events # <<>>
    /\ events[1].kind = "message"
    /\ LET worker == events[1].worker
           payload == events[1].data
       IN  IF payload.requestId # requestIdRef
           THEN /\ workers' = [workers EXCEPT ![worker].terminated = TRUE,
                                              ![worker].delivery = "discarded"]
                /\ UNCHANGED <<uiErrorMessage, uiResult, isComputing, activeWorkerRef>>
           ELSE /\ IF ~payload.ok
                   THEN uiErrorMessage' = payload.errorMessage /\ uiResult' = EMPTY_RESULT
                   ELSE /\ uiErrorMessage' = ""
                        /\ uiResult' = [expectedPerPlan |-> payload.expectedPerPlan,
                                        expectedTotal |-> payload.expectedTotal,
                                        entries |-> payload.entries]
                /\ isComputing' = FALSE
                /\ workers' = [workers EXCEPT ![worker].terminated = TRUE,
                                              ![worker].delivery = "applied"]
                /\ activeWorkerRef' = IF activeWorkerRef = worker THEN 0
                                      ELSE activeWorkerRef
    /\ events' = Tail(events)
    /\ UNCHANGED <<phase, computeInput, requestIdRef, debounceTimerRef, timers>>
    /\ UNCHANGED <<algebraVars, attackVars, singleRollVars, damageVars, planVars, callVars>>

\* worker.onerror keeping isComputing as it is
OnWorkerErrorStillComputing ==
    /\ events # <<>>
    /\ events[1].kind = "error"
    /\ LET worker == events[1].worker
       IN  /\ uiErrorMessage' = WorkerCrashedMessage
           /\ uiResult' = EMPTY_RESULT
           /\ workers' = [workers EXCEPT ![worker].terminated = TRUE,
                                         ![worker].delivery = "crashed"]
           /\ activeWorkerRef' = IF activeWorkerRef = worker THEN 0
                                 ELSE activeWorkerRef
    /\ events' = Tail(events)
    /\ UNCHANGED <<phase, computeInput, isComputing, requestIdRef, debounceTimerRef, timers>>
    /\ UNCHANGED <<algebraVars, attackVars, singleRollVars, damageVars, planVars, callVars>>

\* worker.onerror on the App's thread, for the oldest queued event
OnWorkerError ==
    /\ events # <<>>
    /\ events[1].kind = "error"
    /\ LET worker == events[1].worker
       IN  /\ uiErrorMessage' = WorkerCrashedMessage
           /\ uiResult' = EMPTY_RESULT
           /\ isComputing' = FALSE
           /\ workers' = [workers EXCEPT ![worker].terminated = TRUE,
                                         ![worker].delivery = "crashed"]
           /\ activeWorkerRef' = IF activeWorkerRef = worker THEN 0
                                 ELSE activeWorkerRef
    /\ events' = Tail(events)
    /\ UNCHANGED <<phase, computeInput, requestIdRef, debounceTimerRef, timers>>
    /\ UNCHANGED <<algebraVars, attackVars, singleRollVars, damageVars, planVars, callVars>>

\* the event of a worker that was terminated while the event was queued may be
\* discarded before its handler runs
DropEvent ==
    /\ events # <<>>
    /\ workers[events[1].worker].terminated
    /\ workers' = [workers EXCEPT ![events[1].worker].delivery = "dropped"]
    /\ events' = Tail(events)
    /\ UNCHANGED <<phase, computeInput, uiErrorMessage, uiResult, isComputing,
                   activeWorkerRef, requestIdRef, debounceTimerRef, timers>>
    /\ UNCHANGED <<algebraVars, attackVars, singleRollVars, damageVars, planVars, callVars>>

WorkerResponds == \E worker \in 1..MaxRequests : WorkerOnMessage(worker) \/ WorkerFails(worker)

HandleEvent == OnWorkerMessage \/ OnWorkerError \/ DropEvent

NextApp ==
    \/ Mount
    \/ \E input \in AppInputs : ChangeInput(input)
    \/ Unmount
    \/ TimerFires
    \/ \E worker \in 1..MaxRequests : WorkerOnMessage(worker)
    \/ \E worker \in 1..MaxRequests : WorkerFails(worker)
    \/ OnWorkerMessage
    \/ OnWorkerError
    \/ DropEvent

SpecApp == InitApp /\ [][NextApp]_vars

\* the window runs a timeout that stays set, a worker that is not terminated answers
\* or fails, and the App's thread handles the oldest queued event
FairApp ==
    /\ SpecApp
    /\ WF_vars(TimerFires)
    /\ WF_vars(WorkerResponds)
    /\ WF_vars(HandleEvent)

LiveWorkers == {worker \in DOMAIN workers : ~workers[worker].terminated}

\* C28: under any interleaving of input changes, timer firings and worker replies, a
\* reply whose requestId differs from the most recently issued request id leaves the
\* displayed result, the error message and isComputing as they are and its worker is
\* terminated, and at any time at most one worker that is not terminated exists.
StaleRepliesDiscarded ==
    /\ [](Cardinality(LiveWorkers) <= 1)
    /\ [][(/\ events # <<>>
           /\ events' = Tail(events)
           /\ events[1].kind = "message"
           /\ events[1].data.requestId # requestIdRef)
          => /\ UNCHANGED <<uiResult, uiErrorMessage, isComputing>>
             /\ workers'[events[1].worker].terminated]_vars

\* the reply to request 1 was handled after request 2 was issued and was discarded,
\* while request 2 is still being computed by the only live worker
StaleRepliesDiscardedWitness ==
    /\ phase = "mounted"
    /\ requestIdRef = 2
    /\ 1 \in DOMAIN workers
    /\ workers[1].delivery = "discarded"
    /\ LiveWorkers = {2}
    /\ isComputing
    /\ uiResult = EMPTY_RESULT

\* what the App shows for a reply of the worker
Shown(payload) ==
    IF ~payload.ok
    THEN [errorMessage |-> payload.errorMessage, result |-> EMPTY_RESULT]
    ELSE [errorMessage |-> "",
          result |-> [expectedPerPlan |-> payload.expectedPerPlan,
                      expectedTotal |-> payload.expectedTotal,
                      entries |-> payload.entries]]

\* the App shows what the latest inputs compute to, or the crash of their worker
ShowsLatest ==
    /\ requestIdRef \in DOMAIN workers
    /\ \/ /\ workers[requestIdRef].delivery = "crashed"
          /\ uiErrorMessage = WorkerCrashedMessage
          /\ uiResult = EMPTY_RESULT
       \/ /\ workers[requestIdRef].delivery = "applied"
          /\ [errorMessage |-> uiErrorMessage, result |-> uiResult]
                 = Shown(WorkerOutput([entries |-> computeInput.entries,
                                       planCountText |-> computeInput.planCountText,
                                       requestId |-> requestIdRef]))

\* C29: every run of the compute effect (every input change) sets isComputing; while
\* the App stays mounted isComputing does not stay true forever, and once the inputs
\* stop changing the latest request is posted, answered or failed, and from then on
\* isComputing is false and the App shows the result or the error of the latest inputs.
ComputingEnds ==
    /\ [][requestIdRef' # requestIdRef => isComputing']_vars
    /\ (phase = "mounted" /\ isComputing) ~> (phase # "mounted" \/ ~isComputing)
    /\ <>[](phase = "mounted" => ~isComputing /\ ShowsLatest)

\* the inputs were changed to the plan count 2 and its result is shown
ComputingEndsWitness ==
    /\ phase = "mounted"
    /\ requestIdRef = 2
    /\ computeInput.planCountText = "2"
    /\ ~isComputing
    /\ ShowsLatest
    /\ uiErrorMessage = ""
    /\ uiResult.expectedPerPlan # uiResult.expectedTotal
    /\ timers = {} /\ events = <<>> /\ LiveWorkers = {}

-----------------------------------------------------------------------------
(* The critical threshold effect, called on its own and through the worker *)

MaxThreshold == 22       \* thresholds of 8..MaxThreshold, in halves

\* resolveBg3Attack(base, [makeCriticalThresholdEffect(id, threshold)]) for two base
\* contexts, and computeAttackPlan for one entry whose criticalThresholdText and
\* attack bonus vary
InitThreshold ==
    LET bases == {[attack |-> [armorClass |-> 15, attackBonusExpression |-> <<Const(5)>>,
                               advantageState |-> "normal", rules |-> bg3AttackRules,
                               halflingLucky |-> FALSE],
                   damage |-> [expression |-> <<Dice(1, 8, 1), Const(3)>>,
                               criticalDiceMultiplier |-> FromInt(2), modifier |-> "normal",
                               diceRollMode |-> UndefinedMode, damageRollCount |-> Undefined,
                               rerollLowThreshold |-> Undefined]],
                  [attack |-> [armorClass |-> 30, attackBonusExpression |-> <<Const(3)>>,
                               advantageState |-> "normal",
                               rules |-> [dieSides |-> FromInt(20), autoMissFaces |-> {1, 2},
                                          autoCritFaces |-> {10, 20}],
                               halflingLucky |-> FALSE],
                   damage |-> [expression |-> <<Dice(1, 4, 1)>>,
                               criticalDiceMultiplier |-> FromInt(2),
                               modifier |-> "vulnerable",
                               diceRollMode |-> UndefinedMode, damageRollCount |-> Undefined,
                               rerollLowThreshold |-> Undefined]]}
        texts == {"", "x", "9", "9.9", "10", "10.5", "11", "12", "13", "14", "15", "16",
                  "16.9", "17", "17.5", "18", "18.2", "19", "19.9", "20", "20.5", "21"}
        entries == {[makeDefaultEntry EXCEPT !.criticalThresholdText = text,
                                             !.mainHandAttackBonusFixedText = bonus,
                                             !.advantageState = advantageState] :
                        text \in texts, bonus \in {"5", "30", "-30"},
                        advantageState \in {"normal", "advantage"}}
    IN  /\ \/ call \in [operation : {"makeCriticalThresholdEffect"}, base : bases,
                       threshold : {Rat(k, 2) : k \in 16..(2 * MaxThreshold)}]
           \/ call \in [operation : {"computeAttackPlan"},
                       input : [entries : {<<entry>> : entry \in entries},
                                planCountText : {"1"}, requestId : {7}]]
        /\ returned = None
        /\ AlgebraIdle /\ AppIdle /\ AttackIdle /\ SingleRollIdle /\ DamageIdle /\ PlanIdle

\* resolveBg3Attack with the one effect makeCriticalThresholdEffect makes
ResolveCriticalThreshold ==
    /\ call # None
    /\ call.operation = "makeCriticalThresholdEffect"
    /\ returned = None
    /\ returned' =
           [resolved \in Any |->
               [request |-> resolved, result |-> calculateAttackDamage(resolved)]
           ][applyEffects(call.base, <<[id |-> "crit", kind |-> "criticalThreshold",
                                        value |-> call.threshold]>>)]
    /\ UNCHANGED <<appVars, call, algebraVars, attackVars, singleRollVars, damageVars, planVars>>

NextThreshold ==
    \/ ResolveCriticalThreshold
    \/ OnMessage

SpecThreshold == InitThreshold /\ [][NextThreshold]_vars

\* c = min(20, max(17, floor(threshold)))
CriticalFrom(threshold) ==
    LET floored == RFloor(threshold)
        raised == IF floored > 17 THEN floored ELSE 17
    IN  IF raised < 20 THEN raised ELSE 20

\* the chances of one d20 with a fixed bonus, face by face: face 1 misses, a face from
\* `critical` on is a critical hit, any other face hits when face + bonus reaches the AC
NormalRollChances(critical, bonus, armorClass) ==
    LET missFaces == {face \in 1..20 :
                         face = 1 \/ (face < critical /\ face + bonus < armorClass)}
        criticalFaces == (critical..20) \ {1}
    IN  [miss |-> Rat(Cardinality(missFaces), 20),
         hit |-> Rat(20 - Cardinality(missFaces) - Cardinality(criticalFaces), 20),
         critical |-> Rat(Cardinality(criticalFaces), 20)]

\* C30: makeCriticalThresholdEffect replaces autoCritFaces by {c, ..., 20} with
\* c = min(20, max(17, floor(threshold))) and leaves dieSides, autoMissFaces and the
\* rest of the context as they are; for every criticalThresholdText computeAttackPlan
\* accepts (a number from 10 to 20) the faces used are {max(17, floor(t)), ..., 20}:
\* under normal rolls the chances shown are those of these faces, the critical chance
\* is at most 4/20 and face 1 misses.
CriticalThresholdFaces ==
    returned # None =>
        /\ call.operation = "makeCriticalThresholdEffect" =>
               LET rules == returned.request.attack.rules
                   c == CriticalFrom(call.threshold)
               IN  /\ rules.autoCritFaces = c..20
                   /\ c \in 17..20
                   /\ rules.dieSides = call.base.attack.rules.dieSides
                   /\ rules.autoMissFaces = call.base.attack.rules.autoMissFaces
                   /\ returned.request.damage = call.base.damage
                   /\ [returned.request.attack EXCEPT !.rules = call.base.attack.rules]
                          = call.base.attack
                   /\ Succeeded(returned.result)
                   /\ RLeq(returned.result.probabilities.critical, Rat(4, 20))
                   /\ RLeq(Rat(Cardinality(call.base.attack.rules.autoMissFaces), 20),
                           returned.result.probabilities.miss)
        /\ call.operation = "computeAttackPlan" =>
               LET entry == call.input.entries[1]
                   t == NumberOf(entry.criticalThresholdText)
               IN  /\ returned.ok <=> ~NotBetween(entry.criticalThresholdText, 10, 20)
                   /\ returned.ok /\ entry.advantageState = "normal" =>
                          LET chances ==
                                  NormalRollChances(
                                      IF RFloor(t) > 17 THEN RFloor(t) ELSE 17,
                                      RFloor(NumberOf(entry.mainHandAttackBonusFixedText)),
                                      RFloor(NumberOf(entry.armorClassText)))
                          IN  /\ returned.entries[1].mainHandProbabilitySummary
                                     = summarizeProbabilities(chances)
                              /\ RLeq(chances.critical, Rat(4, 20))
                              /\ RLeq(Rat(1, 20), chances.miss)

\* the criticalThresholdText "12" is accepted and faces 17..20 are used: with a bonus
\* of 30 only face 1 misses
CriticalThresholdFacesWitness ==
    /\ returned # None
    /\ call.operation = "computeAttackPlan"
    /\ call.input.entries[1].criticalThresholdText = "12"
    /\ call.input.entries[1].mainHandAttackBonusFixedText = "30"
    /\ call.input.entries[1].advantageState = "normal"
    /\ returned.ok
    /\ returned.entries[1].mainHandProbabilitySummary
           = "miss 5.00% | hit 75.00% | crit 20.00%"

====
